---- MODULE Spec2Model ----
(***************************************************************************)
(* The markdown renderer of src/ui/src/markdown.rs as a state machine.     *)
(*                                                                         *)
(* render_markdown_events walks a flat pulldown-cmark event sequence with  *)
(* a cursor; for an opening tag it calls collect_until_end_with_index and  *)
(* recurses on the collected inner events.  A call of the function is a    *)
(* frame of `stack`; one step of the model is one iteration of its while   *)
(* loop (one match arm), or the return of a finished call to its caller.   *)
(*                                                                         *)
(* Rust strings are sequences of one-character strings, Option<T> is the   *)
(* empty sequence (None) or a one-element sequence (Some), cursors are     *)
(* 0-based as in the source (events[i] of the source is At(events, i)).    *)
(***************************************************************************)
EXTENDS Integers, Sequences, FiniteSets, TLC

VARIABLES
    events,           \* the parser's event vector handed to the outermost render call
    image_base_path,  \* the Markdown component's image_base_path prop
    stack,            \* the active calls of render_markdown_events, outermost first
    result,           \* the elements the outermost call returned
    done,             \* the outermost call has returned
    call,             \* the last call of collect_until_end_with_index, with what it returned
    spans,            \* the (style, text) spans handed to the classifier, with their language
    class_names,      \* the class_name of the spans classified so far
    syntaxes,         \* the grammar found for the language of each span classified so far
    code,             \* highlight_code_to_lines: the code
    code_language,    \* highlight_code_to_lines: the language
    next_line,        \* the line of code.lines() the loop is at
    highlighted_lines, \* the lines pushed so far
    outcomes,         \* what highlight_line answered for each line so far
    highlighted,      \* highlight_code_to_lines has returned
    once,             \* the OnceLock statics SYNTAX_SET and THEME_SET
    constructions,    \* how often each set has been constructed in the process
    pc,               \* where each thread is in highlight_code_to_lines
    returned,         \* the set each accessor returned to each thread in its current call
    renders,          \* the calls of highlight_code_to_lines each thread has made
    content_prop,     \* the Markdown component's content prop
    file_path,        \* the Markdown component's file_path prop
    files,            \* what fs::read_to_string answers for each path
    content_str,      \* the component's content_str
    final_content,    \* the component's final_content
    parsed,           \* the string handed to the parser
    stderr,           \* what the component has written to stderr
    stage             \* how far the component is

render_vars == <<events, image_base_path, stack, result, done, call>>
classify_vars == <<spans, class_names, syntaxes>>
highlight_vars == <<code, code_language, next_line, highlighted_lines, outcomes, highlighted>>
catalog_vars == <<once, constructions, pc, returned, renders>>
component_vars ==
    <<content_prop, file_path, files, content_str, final_content, parsed, stderr, stage>>
beside_render == <<classify_vars, highlight_vars, catalog_vars, component_vars>>

vars == <<render_vars, classify_vars, highlight_vars, catalog_vars, component_vars>>

\* The parts of the program a specification leaves out stay as they are here.
RenderOff ==
    /\ events = <<>> /\ image_base_path = <<>> /\ stack = <<>>
    /\ result = <<>> /\ done = TRUE /\ call = <<>>
ClassifyOff == spans = <<>> /\ class_names = <<>> /\ syntaxes = <<>>
HighlightOff ==
    /\ code = <<>> /\ code_language = <<>> /\ next_line = 1
    /\ highlighted_lines = <<>> /\ outcomes = <<>> /\ highlighted = TRUE
CatalogOff ==
    /\ once = <<>> /\ constructions = <<>> /\ pc = <<>>
    /\ returned = <<>> /\ renders = <<>>
ComponentOff ==
    /\ content_prop = <<>> /\ file_path = <<>> /\ files = <<>> /\ content_str = <<>>
    /\ final_content = <<>> /\ parsed = <<>> /\ stderr = <<>> /\ stage = "off"

-----------------------------------------------------------------------------
(* Option<T>, strings *)

None == <<>>
Some(x) == <<x>>
IsSome(o) == Len(o) = 1
Unwrap(o) == o[1]

\* str::starts_with
starts_with(s, p) == Len(s) >= Len(p) /\ SubSeq(s, 1, Len(p)) = p

\* char::is_whitespace, on the characters the model uses
IsWhitespace(c) == c \in {" ", "\t", "\n", "\r"}

\* A test for the empty string alone.
TrimIsEmpty_only_empty(s) == s = <<>>

\* s.trim().is_empty()
TrimIsEmpty(s) == \A n \in 1..Len(s) : IsWhitespace(s[n])

\* The characters of the model that take two bytes in UTF-8.
TwoByteChars == {"U+00E9"}

\* str::len: the length in bytes
ByteLen(s) == Len(s) + Cardinality({n \in 1..Len(s) : s[n] \in TwoByteChars})

\* str::lines: the pieces between "\n", a final empty piece dropped, one
\* trailing "\r" cut from each
StripCr(l) == IF l # <<>> /\ l[Len(l)] = "\r" THEN SubSeq(l, 1, Len(l) - 1) ELSE l

LineStarts(s) == {p \in 1..Len(s) : p = 1 \/ s[p - 1] = "\n"}

LineEnd(s, p) ==
    LET stops == {n \in p..Len(s) : s[n] = "\n"} \cup {Len(s) + 1}
    IN  (CHOOSE n \in stops : \A m \in stops : n <= m) - 1

Lines(s) ==
    LET starts == LineStarts(s)
        nth(k) == CHOOSE p \in starts : Cardinality({q \in starts : q < p}) = k - 1
    IN  [k \in 1..Cardinality(starts) |-> StripCr(SubSeq(s, nth(k), LineEnd(s, nth(k))))]

\* Iterator::max of the line lengths, unwrap_or(0)
RECURSIVE MaxByteLen(_)
MaxByteLen(ls) ==
    IF ls = <<>> THEN 0
    ELSE LET h == ByteLen(Head(ls))
             t == MaxByteLen(Tail(ls))
         IN  IF h > t THEN h ELSE t

\* format!("{}", n) of an unsigned number
Digit(d) == <<"0", "1", "2", "3", "4", "5", "6", "7", "8", "9">>[d + 1]

RECURSIVE ToDecimal(_)
ToDecimal(n) == IF n < 10 THEN <<Digit(n)>> ELSE Append(ToDecimal(n \div 10), Digit(n % 10))

MarkerUnchecked == <<"[", " ", "]", " ">>
MarkerCheckedLower == <<"[", "x", "]", " ">>
MarkerCheckedUpper == <<"[", "X", "]", " ">>
Http == <<"h", "t", "t", "p", ":", "/", "/">>
Https == <<"h", "t", "t", "p", "s", ":", "/", "/">>

-----------------------------------------------------------------------------
(* pulldown_cmark::Tag and pulldown_cmark::Event *)

Paragraph == [kind |-> "Paragraph"]
Heading(level, id, classes) ==
    [kind |-> "Heading", level |-> level, id |-> id, classes |-> classes]
BlockQuote == [kind |-> "BlockQuote"]
Fenced(lang) == [fenced |-> TRUE, lang |-> lang]
Indented == [fenced |-> FALSE]
CodeBlock(k) == [kind |-> "CodeBlock", cb |-> k]
List(first_item_number) == [kind |-> "List", num |-> first_item_number]
Item == [kind |-> "Item"]
FootnoteDefinition(id) == [kind |-> "FootnoteDefinition", id |-> id]
Table(alignments) == [kind |-> "Table", alignments |-> alignments]
TableHead == [kind |-> "TableHead"]
TableRow == [kind |-> "TableRow"]
TableCell == [kind |-> "TableCell"]
Emphasis == [kind |-> "Emphasis"]
Strong == [kind |-> "Strong"]
Strikethrough == [kind |-> "Strikethrough"]
Link(link_type, url, title) ==
    [kind |-> "Link", link_type |-> link_type, url |-> url, title |-> title]
Image(link_type, url, title) ==
    [kind |-> "Image", link_type |-> link_type, url |-> url, title |-> title]

Start(tag) == [k |-> "Start", tag |-> tag]
End(tag) == [k |-> "End", tag |-> tag]
Text(s) == [k |-> "Text", s |-> s]
Code(s) == [k |-> "Code", s |-> s]
Html(s) == [k |-> "Html", s |-> s]
FootnoteReference(s) == [k |-> "FootnoteReference", s |-> s]
SoftBreak == [k |-> "SoftBreak"]
HardBreak == [k |-> "HardBreak"]
Rule == [k |-> "Rule"]
TaskListMarker(checked) == [k |-> "TaskListMarker", checked |-> checked]

\* events[i] of the source
At(evs, i) == evs[i + 1]

-----------------------------------------------------------------------------
(* tag_matches, collect_until_end_with_index, collect_text_until_end *)

tag_matches(a, b) ==
    /\ a.kind = b.kind
    /\ CASE a.kind = "Heading" ->
               a.level = b.level /\ a.id = b.id /\ a.classes = b.classes
         [] a.kind = "CodeBlock" -> a.cb = b.cb
         [] a.kind = "List" -> a.num = b.num
         [] a.kind = "FootnoteDefinition" -> a.id = b.id
         [] a.kind \in {"Link", "Image"} ->
               a.link_type = b.link_type /\ a.url = b.url /\ a.title = b.title
         [] OTHER -> TRUE

\* The while loop of collect_until_end_with_index from cursor i on, with the
\* depth and the events collected so far; low is the lowest value depth has
\* had during the scan.
RECURSIVE CollectLoop(_, _, _, _, _, _)
CollectLoop(evs, start_tag, i, depth, collected, low) ==
    IF i >= Len(evs) THEN [content |-> collected, index |-> i, low |-> low]
    ELSE LET e == At(evs, i) IN
         IF e.k = "Start" /\ tag_matches(e.tag, start_tag)
         THEN CollectLoop(evs, start_tag, i + 1, depth + 1,
                          IF depth + 1 > 1 THEN Append(collected, e) ELSE collected, low)
         ELSE IF e.k = "End" /\ tag_matches(e.tag, start_tag)
         THEN LET lower == IF depth - 1 < low THEN depth - 1 ELSE low IN
              IF depth - 1 = 0
              THEN [content |-> collected, index |-> i, low |-> lower]
              ELSE CollectLoop(evs, start_tag, i + 1, depth - 1, Append(collected, e), lower)
         ELSE IF depth > 0
         THEN CollectLoop(evs, start_tag, i + 1, depth, Append(collected, e), low)
         ELSE CollectLoop(evs, start_tag, i + 1, depth, collected, low)

\* A matcher without the depth counter: it stops at the first End of the kind.
collect_stops_at_first_end(evs, start_index, start_tag) ==
    LET ends == {j \in start_index..(Len(evs) - 1) :
                     At(evs, j).k = "End" /\ tag_matches(At(evs, j).tag, start_tag)}
        stop == IF ends = {} THEN Len(evs) ELSE CHOOSE j \in ends : \A m \in ends : j <= m
    IN  [content |-> SubSeq(evs, start_index + 2, stop), index |-> stop, low |-> 0]

\* A matcher that leaves the index where it started.
collect_returns_start(evs, start_index, start_tag) ==
    [CollectLoop(evs, start_tag, start_index, 0, <<>>, 0) EXCEPT !.index = start_index]

\* A matcher that starts its scan one event late.
collect_starts_late(evs, start_index, start_tag) ==
    CollectLoop(evs, start_tag, start_index + 1, 0, <<>>, 0)

collect_until_end_with_index(evs, start_index, start_tag) ==
    CollectLoop(evs, start_tag, start_index, 0, <<>>, 0)

\* The while loop of collect_text_until_end.
RECURSIVE CollectTextLoop(_, _, _, _, _)
CollectTextLoop(evs, start_tag, i, depth, text) ==
    IF i >= Len(evs) THEN text
    ELSE LET e == At(evs, i) IN
         IF e.k = "Start" /\ tag_matches(e.tag, start_tag)
         THEN CollectTextLoop(evs, start_tag, i + 1, depth + 1, text)
         ELSE IF e.k = "End" /\ tag_matches(e.tag, start_tag)
         THEN IF depth - 1 = 0 THEN text
              ELSE CollectTextLoop(evs, start_tag, i + 1, depth - 1, text)
         ELSE IF e.k \in {"Text", "Code"} /\ depth > 0
         THEN CollectTextLoop(evs, start_tag, i + 1, depth, text \o e.s)
         ELSE IF e.k = "SoftBreak" /\ depth > 0
         THEN CollectTextLoop(evs, start_tag, i + 1, depth, Append(text, "\n"))
         ELSE IF e.k = "HardBreak" /\ depth > 0
         THEN CollectTextLoop(evs, start_tag, i + 1, depth, text \o <<"\n", "\n">>)
         ELSE CollectTextLoop(evs, start_tag, i + 1, depth, text)

\* The scan starts at the first event of the slice, whatever the caller's cursor.
collect_text_until_end(evs, start_tag) == CollectTextLoop(evs, start_tag, 0, 0, <<>>)

-----------------------------------------------------------------------------
(* The elements render_markdown_events builds (the rsx! blocks) *)

TextLeaf(s) == [text |-> s]

\* span { {current_text} }
Span(s) == [role |-> "span", children |-> <<TextLeaf(s)>>]

HeadingRole(level) == <<"h1", "h2", "h3", "h4", "h5", "h6">>[level]
HeadingClass(level) ==
    <<"markdown-heading-1", "markdown-heading-2", "markdown-heading-3",
      "markdown-heading-4", "markdown-heading-5", "markdown-heading-6">>[level]

CheckboxNode(checked) ==
    [role |-> "div",
     class |-> IF checked THEN "markdown-task-checkbox markdown-task-checkbox-checked"
               ELSE "markdown-task-checkbox markdown-task-checkbox-unchecked",
     aria_role |-> "checkbox",
     aria_checked |-> IF checked THEN "true" ELSE "false",
     tabindex |-> "0",
     children |-> <<>>]

\* li { div { div(checkbox), span { <the rendered content> } } }
TaskItemShell(checked) ==
    [role |-> "li", class |-> "markdown-task-list-item",
     children |-> <<[role |-> "div", class |-> "markdown-task-checkbox-container",
                     children |-> <<CheckboxNode(checked),
                                    [role |-> "span", class |-> "markdown-task-text",
                                     children |-> <<>>]>>]>>]

IsTaskItemShell(shell) == shell.role = "li" /\ shell.class = "markdown-task-list-item"

\* The element of a call's shell around the children the recursive call returned.
WithChildren(shell, children) ==
    IF IsTaskItemShell(shell)
    THEN [shell EXCEPT !.children[1].children[2].children = children]
    ELSE [shell EXCEPT !.children = children]

-----------------------------------------------------------------------------
(* The calls of render_markdown_events *)

NewFrame(evs, shell, new_index) ==
    [events |-> evs, i |-> 0, current_text |-> <<>>, elements |-> <<>>,
     list_stack |-> <<>>, in_table_head |-> FALSE,
     shell |-> shell, new_index |-> new_index]

RootShell == [role |-> "root", children |-> <<>>]

Top == stack[Len(stack)]
InLoop == ~done /\ stack # <<>> /\ Top.i < Len(Top.events)
Cur == At(Top.events, Top.i)
AtStart(kind) == InLoop /\ Cur.k = "Start" /\ Cur.tag.kind = kind
AtEvent(k) == InLoop /\ Cur.k = k

\* The span is pushed and the text stays pending.
Flush_keeps_text(f) ==
    IF f.current_text # <<>>
    THEN [f EXCEPT !.elements = Append(@, Span(f.current_text))]
    ELSE f

\* if !current_text.is_empty() { elements.push(span); current_text.clear(); }
Flush(f) ==
    IF f.current_text # <<>>
    THEN [f EXCEPT !.elements = Append(@, Span(f.current_text)), !.current_text = <<>>]
    ELSE f

ReplaceTop(f) == [stack EXCEPT ![Len(stack)] = f]

CallRecord(evs, start_index, start_tag, c) ==
    <<[events |-> evs, start_index |-> start_index, start_tag |-> start_tag,
       content |-> c.content, new_index |-> c.index, low |-> c.low]>>

\* A Start arm that collects the inner events with probe start_tag and renders
\* them in a recursive call whose elements become the children of shell.
\* The caller's cursor moves to the collector's index when the call returns.
Descend(caller, start_tag, shell) ==
    LET c == collect_until_end_with_index(caller.events, caller.i, start_tag) IN
    /\ stack' = Append(ReplaceTop(caller), NewFrame(c.content, shell, c.index))
    /\ call' = CallRecord(caller.events, caller.i, start_tag, c)
    /\ UNCHANGED <<beside_render, events, image_base_path, result, done>>

Simple(role, class) == [role |-> role, class |-> class, children |-> <<>>]

StartParagraph ==
    /\ AtStart("Paragraph")
    /\ Descend(Flush(Top), Paragraph, Simple("p", "markdown-paragraph"))

\* The probe is built from the level alone: Tag::Heading(*level, None, Vec::new()).
HeadingProbe(tag) == Heading(tag.level, None, <<>>)

StartHeading ==
    /\ AtStart("Heading")
    /\ Descend(Flush(Top), HeadingProbe(Cur.tag),
               Simple(HeadingRole(Cur.tag.level), HeadingClass(Cur.tag.level)))

StartBlockQuote ==
    /\ AtStart("BlockQuote")
    /\ Descend(Flush(Top), BlockQuote, Simple("blockquote", "markdown-blockquote"))

IsMarkerText(e) ==
    /\ e.k = "Text"
    /\ \/ starts_with(e.s, MarkerUnchecked)
       \/ starts_with(e.s, MarkerCheckedLower)
       \/ starts_with(e.s, MarkerCheckedUpper)

\* A lookahead that takes any event before the text for the item's Start.
is_task_list_any_first(evs, i) ==
    IF i + 2 < Len(evs) THEN IsMarkerText(At(evs, i + 2)) ELSE FALSE

\* is_task_list of the List arm
is_task_list(evs, i) ==
    IF i + 2 < Len(evs)
    THEN IF At(evs, i + 1) = Start(Item)
         THEN IF i + 2 < Len(evs) THEN IsMarkerText(At(evs, i + 2)) ELSE FALSE
         ELSE FALSE
    ELSE FALSE

ListShell(first_item_number, task_list) ==
    LET list_class == IF task_list THEN "markdown-list markdown-task-list"
                      ELSE "markdown-list"
    IN  IF IsSome(first_item_number)
        THEN [role |-> "ol", class |-> list_class,
              start |-> ToDecimal(Unwrap(first_item_number)), children |-> <<>>]
        ELSE [role |-> "ul", class |-> list_class, children |-> <<>>]

StartList ==
    /\ AtStart("List")
    /\ LET f == Flush(Top)
           num == Cur.tag.num
       IN  Descend([f EXCEPT !.list_stack = Append(@, num)], List(num),
                   ListShell(num, is_task_list(f.events, f.i)))

\* A lookahead that forgets the upper-case marker.
is_task_item_lower_only(evs, i) ==
    IF i + 1 < Len(evs)
    THEN /\ At(evs, i + 1).k = "Text"
         /\ \/ starts_with(At(evs, i + 1).s, MarkerUnchecked)
            \/ starts_with(At(evs, i + 1).s, MarkerCheckedLower)
    ELSE FALSE

\* is_task_item of the Item arm
is_task_item(evs, i) ==
    IF i + 1 < Len(evs) THEN IsMarkerText(At(evs, i + 1)) ELSE FALSE

\* A check that forgets the upper-case marker.
MarkerChecked_lower_only(text_str) == starts_with(text_str, MarkerCheckedLower)

\* checked of the task-item branch
MarkerChecked(text_str) ==
    starts_with(text_str, MarkerCheckedLower) \/ starts_with(text_str, MarkerCheckedUpper)

\* text_str[4..]
StripMarker(text_str) == SubSeq(text_str, 5, Len(text_str))

StartItem ==
    /\ AtStart("Item")
    /\ LET f == Flush(Top) IN
       IF is_task_item(f.events, f.i)
       THEN LET c == collect_until_end_with_index(f.events, f.i, Item) IN
            IF c.content # <<>> /\ c.content[1].k = "Text"
            THEN LET text_str == c.content[1].s
                     content == [c.content EXCEPT ![1] = Text(StripMarker(text_str))]
                 IN  /\ stack' = Append(ReplaceTop(f),
                                        NewFrame(content, TaskItemShell(MarkerChecked(text_str)),
                                                 c.index))
                     /\ call' = CallRecord(f.events, f.i, Item, c)
                     /\ UNCHANGED <<beside_render, events, image_base_path, result, done>>
            ELSE /\ stack' = ReplaceTop([f EXCEPT !.i = c.index])
                 /\ call' = CallRecord(f.events, f.i, Item, c)
                 /\ UNCHANGED <<beside_render, events, image_base_path, result, done>>
       ELSE Descend(f, Item, Simple("li", "markdown-list-item"))

\* The language of a code block: the fence's info string, "text" when it is
\* empty or the block is indented.
TextLang == <<"t", "e", "x", "t">>
CodeLanguage(k) == IF k.fenced /\ k.lang # <<>> THEN k.lang ELSE TextLang

ScrollMaxLineLength == 80
ScrollMaxLines == 15

\* needs_scroll of the CodeBlock arm
needs_scroll(code_content) ==
    LET lines == Len(Lines(code_content))
        max_line_length == MaxByteLen(Lines(code_content))
    IN  max_line_length > ScrollMaxLineLength \/ lines > ScrollMaxLines

CodeBlockNode(language, code_content) ==
    [role |-> "div", class |-> "markdown-code-block", language |-> language,
     scroll_class |-> IF needs_scroll(code_content) THEN "needs-scroll" ELSE "no-scroll",
     code |-> code_content,
     line_count |-> Len(Lines(code_content)),
     children |-> <<>>]

\* The CodeBlock arm: the text comes from collect_text_until_end over the whole
\* slice, the cursor from collect_until_end_with_index at the cursor.
StartCodeBlock ==
    /\ AtStart("CodeBlock")
    /\ LET f == Flush(Top)
           k == Cur.tag.cb
           c == collect_until_end_with_index(f.events, f.i, CodeBlock(k))
           code_content == collect_text_until_end(f.events, CodeBlock(k))
       IN  /\ stack' = ReplaceTop([f EXCEPT
                          !.elements = Append(@, CodeBlockNode(CodeLanguage(k), code_content)),
                          !.i = c.index])
           /\ call' = CallRecord(f.events, f.i, CodeBlock(k), c)
    /\ UNCHANGED <<beside_render, events, image_base_path, result, done>>

\* Skip footnote definitions: only the cursor moves past the Start.
StartFootnoteDefinition ==
    /\ AtStart("FootnoteDefinition")
    /\ stack' = ReplaceTop([Flush(Top) EXCEPT !.i = @ + 1])
    /\ UNCHANGED <<beside_render, events, image_base_path, result, done, call>>

StartTable ==
    /\ AtStart("Table")
    /\ Descend(Flush(Top), Table(Cur.tag.alignments), Simple("table", "markdown-table"))

\* in_table_head is a local of the call that meets the TableHead; the call that
\* renders the head's content starts with its own, false.
StartTableHead ==
    /\ AtStart("TableHead")
    /\ Descend([Flush(Top) EXCEPT !.in_table_head = TRUE], TableHead, Simple("thead", ""))

StartTableRow ==
    /\ AtStart("TableRow")
    /\ Descend(Flush(Top), TableRow, Simple("tr", ""))

CellShell(in_table_head) ==
    IF in_table_head THEN Simple("th", "markdown-table-header")
    ELSE Simple("td", "markdown-table-cell")

StartTableCell ==
    /\ AtStart("TableCell")
    /\ Descend(Flush(Top), TableCell, CellShell(Top.in_table_head))

StartEmphasis ==
    /\ AtStart("Emphasis")
    /\ Descend(Flush(Top), Emphasis, Simple("em", "markdown-emphasis"))

StartStrong ==
    /\ AtStart("Strong")
    /\ Descend(Flush(Top), Strong, Simple("strong", "markdown-strong"))

StartStrikethrough ==
    /\ AtStart("Strikethrough")
    /\ Descend(Flush(Top), Strikethrough, Simple("del", "markdown-strikethrough"))

\* A test for absolute urls that forgets https.
IsAbsoluteUrl_http_only(url_str) == starts_with(url_str, Http)

IsAbsoluteUrl(url_str) == starts_with(url_str, Http) \/ starts_with(url_str, Https)

LinkShell(url_str, title_str) ==
    IF IsAbsoluteUrl(url_str)
    THEN [role |-> "a", class |-> "markdown-link markdown-external-link",
          href |-> url_str, title |-> title_str,
          target |-> "_blank", rel |-> "noopener noreferrer", children |-> <<>>]
    ELSE [role |-> "a", class |-> "markdown-link",
          href |-> url_str, title |-> title_str, children |-> <<>>]

StartLink ==
    /\ AtStart("Link")
    /\ Descend(Flush(Top), Link(Cur.tag.link_type, Cur.tag.url, Cur.tag.title),
               LinkShell(Cur.tag.url, Cur.tag.title))

\* A join that always puts a "/" between the base path and the url.
ImageSrc_always_slash(base_path, url) ==
    IF IsSome(base_path) /\ ~IsAbsoluteUrl(url)
    THEN Unwrap(base_path) \o <<"/">> \o url
    ELSE url

\* url_str of the Image arm after the base path is applied
ImageSrc(base_path, url) ==
    IF IsSome(base_path) /\ ~IsAbsoluteUrl(url)
    THEN IF starts_with(url, <<"/">>)
         THEN Unwrap(base_path) \o url
         ELSE Unwrap(base_path) \o <<"/">> \o url
    ELSE url

ImageNode(url_str, alt_text, title_str) ==
    [role |-> "figure", class |-> "markdown-image-container",
     children |-> <<[role |-> "img", class |-> "markdown-image", src |-> url_str,
                     alt |-> alt_text, title |-> title_str, loading |-> "lazy",
                     children |-> <<>>],
                    [role |-> "figcaption", class |-> "markdown-image-caption",
                     children |-> <<TextLeaf(alt_text)>>]>>]

\* The Image arm: the alt text comes from collect_text_until_end over the whole
\* slice, the cursor from collect_until_end_with_index at the cursor.
StartImage ==
    /\ AtStart("Image")
    /\ LET f == Flush(Top)
           tag == Image(Cur.tag.link_type, Cur.tag.url, Cur.tag.title)
           alt_text == collect_text_until_end(f.events, tag)
           c == collect_until_end_with_index(f.events, f.i, tag)
       IN  /\ stack' = ReplaceTop([f EXCEPT
                          !.elements = Append(@, ImageNode(ImageSrc(image_base_path, Cur.tag.url),
                                                           alt_text, Cur.tag.title)),
                          !.i = c.index])
           /\ call' = CallRecord(f.events, f.i, tag, c)
    /\ UNCHANGED <<beside_render, events, image_base_path, result, done>>

Step(f) ==
    /\ stack' = ReplaceTop(f)
    /\ UNCHANGED <<beside_render, events, image_base_path, result, done, call>>

\* End tags: the cursor moves on.
EndTag ==
    /\ AtEvent("End")
    /\ Step([Top EXCEPT !.i = @ + 1])

\* Text is kept unless it is empty after trimming.
TextEvent ==
    /\ AtEvent("Text")
    /\ Step([Top EXCEPT !.current_text = IF TrimIsEmpty(Cur.s) THEN @ ELSE @ \o Cur.s,
                        !.i = @ + 1])

CodeEvent ==
    /\ AtEvent("Code")
    /\ Step([Flush(Top) EXCEPT
               !.elements = Append(@, [role |-> "code", class |-> "markdown-inline-code",
                                       children |-> <<TextLeaf(Cur.s)>>]),
               !.i = @ + 1])

\* An element that renders raw markup as a node of its own.
HtmlEvent_as_element ==
    /\ AtEvent("Html")
    /\ Step([Top EXCEPT !.elements = Append(@, [role |-> "div", class |-> "raw",
                                                 children |-> <<TextLeaf(Cur.s)>>]),
                        !.i = @ + 1])

HtmlEvent ==
    /\ AtEvent("Html")
    /\ Step([Top EXCEPT !.current_text = @ \o Cur.s, !.i = @ + 1])

FootnoteReferenceEvent ==
    /\ AtEvent("FootnoteReference")
    /\ Step([Flush(Top) EXCEPT
               !.elements = Append(@, [role |-> "sup", class |-> "markdown-footnote-ref",
                                       children |-> <<TextLeaf(<<"[">> \o Cur.s \o <<"]">>)>>]),
               !.i = @ + 1])

SoftBreakEvent ==
    /\ AtEvent("SoftBreak")
    /\ Step([Top EXCEPT !.current_text = Append(@, " "), !.i = @ + 1])

HardBreakEvent ==
    /\ AtEvent("HardBreak")
    /\ Step([Flush(Top) EXCEPT
               !.elements = Append(@, [role |-> "br", children |-> <<>>]),
               !.i = @ + 1])

RuleEvent ==
    /\ AtEvent("Rule")
    /\ Step([Flush(Top) EXCEPT
               !.elements = Append(@, [role |-> "hr", class |-> "markdown-thematic-break",
                                       children |-> <<>>]),
               !.i = @ + 1])

TaskListMarkerEvent ==
    /\ AtEvent("TaskListMarker")
    /\ Step([Flush(Top) EXCEPT
               !.elements = Append(@, CheckboxNode(Cur.checked)),
               !.i = @ + 1])

\* A recursive call leaves its loop, flushes the remaining text and returns its
\* elements; the caller pushes the element around them and moves its cursor to
\* the index the collector gave (and, after a TableHead, clears in_table_head).
Return ==
    /\ ~done
    /\ Len(stack) > 1
    /\ Top.i >= Len(Top.events)
    /\ LET callee == Flush(Top)
           caller == stack[Len(stack) - 1]
           node == WithChildren(callee.shell, callee.elements)
       IN  stack' = Append(SubSeq(stack, 1, Len(stack) - 2),
                           [caller EXCEPT
                              !.elements = Append(@, node),
                              !.i = callee.new_index,
                              !.in_table_head =
                                  IF callee.shell.role = "thead" THEN FALSE ELSE @])
    /\ UNCHANGED <<beside_render, events, image_base_path, result, done, call>>

\* The outermost call flushes the remaining text and returns its elements.
Finish ==
    /\ ~done
    /\ Len(stack) = 1
    /\ Top.i >= Len(Top.events)
    /\ result' = Flush(Top).elements
    /\ done' = TRUE
    /\ stack' = <<>>
    /\ UNCHANGED <<beside_render, events, image_base_path, call>>

-----------------------------------------------------------------------------
(* The event sequences the parser can hand to the renderer *)

MaxLen == 6
MaxLeafLen == 3
MaxItemLen == 3
MaxMalformedLen == 3
MaxCells == 2
MaxRows == 2

\* The well-formed (balanced, properly nested) sequences of exactly n events
\* over the given tags and leaf events.
RECURSIVE Balanced(_, _, _)
Balanced(n, tags, leaves) ==
    IF n = 0 THEN {<<>>}
    ELSE {<<l>> \o w : l \in leaves, w \in Balanced(n - 1, tags, leaves)}
         \cup UNION {UNION {{<<Start(t)>> \o a \o <<End(t)>> \o b :
                                a \in Balanced(m, tags, leaves),
                                b \in Balanced(n - 2 - m, tags, leaves)}
                            : m \in 0..(n - 2)}
                     : t \in tags}

BalancedUpTo(n, tags, leaves) == UNION {Balanced(m, tags, leaves) : m \in 0..n}

\* All sequences of at most n events over the given events, balanced or not.
RECURSIVE AnyUpTo(_, _)
AnyUpTo(n, evs) ==
    IF n = 0 THEN {<<>>}
    ELSE AnyUpTo(n - 1, evs) \cup {Append(w, e) : w \in AnyUpTo(n - 1, evs), e \in evs}

TaskDone == Text(MarkerCheckedLower \o <<"D">>)
TaskOpen == Text(MarkerUnchecked \o <<"D">>)
TaskDoneUpper == Text(MarkerCheckedUpper \o <<"D">>)
TaskBare == Text(MarkerCheckedLower)
NoSpace == Text(<<"[", "x", "]", "D">>)
TooShort == Text(<<"[", "x", "]">>)
Plain == Text(<<"a">>)
Blank == Text(<<" ">>)

\* Same-kind nesting: block quotes in block quotes, lists in lists.
NestDocs == BalancedUpTo(MaxLen, {BlockQuote, List(None), List(Some(1)), Item}, {Plain})

\* Every leaf event, in and around paragraphs and footnote definitions.
LeafDocs ==
    BalancedUpTo(MaxLeafLen, {Paragraph, FootnoteDefinition(<<"n">>)},
                 {Plain, Blank, Code(<<"c">>), Html(<<"<", "b", ">">>),
                  FootnoteReference(<<"n">>), SoftBreak, HardBreak, Rule,
                  TaskListMarker(TRUE), TaskListMarker(FALSE)})

\* Headings with and without the {#id .class} attributes, among paragraphs.
HeadingDocs ==
    BalancedUpTo(MaxLen,
                 {Heading(1, None, <<>>), Heading(1, Some(<<"i">>), <<>>),
                  Heading(2, None, <<<<"c">>>>), Paragraph},
                 {Plain})

\* Inline wrappers and links.
UrlTails == {<<>>, <<"x">>}
Urls ==
    {p \o t : p \in {Http, Https, <<"/">>, <<>>, <<"h", "t", "t", "p", ":", "/">>,
                     <<"f", "t", "p", ":", "/", "/">>},
              t \in UrlTails}

InlineDocs ==
    BalancedUpTo(MaxLen - 2, {Emphasis, Strong, Strikethrough, Paragraph}, {Plain})
    \cup {<<Start(Paragraph), Start(Link("Inline", u, <<"t">>)), Plain,
            End(Link("Inline", u, <<"t">>)), End(Paragraph)>> : u \in Urls}

\* Lists of items whose bodies start with task markers, near misses or wrappers.
ItemBodies ==
    BalancedUpTo(MaxItemLen, {Paragraph, Emphasis},
                 {TaskDone, TaskOpen, TaskDoneUpper, TaskBare, NoSpace, TooShort, Plain})

ItemOf(body) == <<Start(Item)>> \o body \o <<End(Item)>>
ListOf(num, items) == <<Start(List(num))>> \o items \o <<End(List(num))>>

TaskDocs ==
    {ListOf(num, ItemOf(b)) : num \in {None, Some(3)}, b \in ItemBodies}
    \cup {ListOf(None, ItemOf(b1) \o ItemOf(b2)) :
              b1 \in {<<TaskDone>>, <<Plain>>, <<Start(Paragraph), TaskOpen, End(Paragraph)>>},
              b2 \in {<<TaskDoneUpper>>, <<Plain>>, <<>>}}
    \cup {ListOf(None, <<>>), ListOf(None, <<Plain>>),
          ListOf(None, <<Start(Paragraph), TaskDone, End(Paragraph)>>)}

\* Tables: a head (its cells directly inside it, or inside a row) and body rows.
RECURSIVE Repeat(_, _)
Repeat(n, evs) == IF n = 0 THEN <<>> ELSE evs \o Repeat(n - 1, evs)

CellOf(txt) == <<Start(TableCell), Text(txt), End(TableCell)>>
RowOf(cells) == <<Start(TableRow)>> \o cells \o <<End(TableRow)>>
HeadOf(cells, in_row) ==
    <<Start(TableHead)>> \o (IF in_row THEN RowOf(cells) ELSE cells) \o <<End(TableHead)>>
TableOf(alignments, body) ==
    <<Start(Table(alignments))>> \o body \o <<End(Table(alignments))>>

TableDocs ==
    {TableOf(al, HeadOf(Repeat(nc, CellOf(<<"N">>)), in_row)
                 \o Repeat(nr, RowOf(Repeat(nc, CellOf(<<"A">>))))) :
         al \in {<<>>, <<"Left", "None">>}, in_row \in BOOLEAN,
         nc \in 1..MaxCells, nr \in 0..MaxRows}

\* Images: one image, or two images one after the other.
ImageOf(url, alt) ==
    <<Start(Image("Inline", url, <<"t">>))>> \o alt \o <<End(Image("Inline", url, <<"t">>))>>

Alts == {<<>>, <<Plain>>, <<Text(<<"b">>), SoftBreak, Code(<<"c">>)>>}

ImageDocs ==
    {ImageOf(u, <<Plain>>) : u \in Urls}
    \cup {<<Start(Paragraph)>> \o ImageOf(u1, a1) \o ImageOf(u2, a2) \o <<End(Paragraph)>> :
              u1 \in {<<"x">>}, u2 \in {<<"x">>, <<"/", "x">>}, a1 \in Alts, a2 \in Alts}

Bases == {None, Some(<<"/", "b">>), Some(<<>>)}

\* Code blocks: lines of one character each, the first one longer, around the
\* scroll limits.
Chars(n, c) == [j \in 1..n |-> c]

CodeText(n_lines, first_length, c) ==
    Append(Chars(first_length, c), "\n") \o Repeat(n_lines - 1, <<c, "\n">>)

CodeOf(k, text) == <<Start(CodeBlock(k)), Text(text), End(CodeBlock(k))>>

CodeTexts ==
    {CodeText(n, l, "a") :
         n \in {1, ScrollMaxLines, ScrollMaxLines + 1},
         l \in {1, ScrollMaxLineLength, ScrollMaxLineLength + 1}}
    \cup {CodeText(1, ScrollMaxLineLength \div 2 + 1, "U+00E9"), <<>>,
          <<"a", "\t", "b">>, <<"a", "\r", "\n", "\n", "b">>}

CodeKinds == {Fenced(<<"r", "s">>), Fenced(<<>>), Indented}

CodeDocs ==
    {CodeOf(k, t) : k \in CodeKinds, t \in CodeTexts}
    \cup {CodeOf(k1, t1) \o <<Start(Paragraph), Plain, End(Paragraph)>> \o CodeOf(k2, t2) :
              k1 \in {Fenced(<<"r", "s">>)}, k2 \in {Fenced(<<"r", "s">>), Fenced(<<"j", "s">>)},
              t1 \in {CodeText(1, 1, "a"), CodeText(ScrollMaxLines + 1, 1, "a")},
              t2 \in {CodeText(1, 1, "b"), CodeText(1, ScrollMaxLineLength + 1, "b")}}

\* Sequences a well-formed tokenizer does not produce.
MalformedDocs ==
    AnyUpTo(MaxMalformedLen, {Start(BlockQuote), End(BlockQuote), Start(Item), TaskDone})

\* The end-to-end scenarios of the specification.
ScenarioA ==
    <<Start(Paragraph), Start(Strong), Text(<<"h", "i">>), End(Strong), End(Paragraph)>>
ScenarioB ==
    ListOf(None, ItemOf(<<Text(MarkerCheckedLower \o <<"D", "o", "n", "e">>)>>))
ScenarioC ==
    TableOf(<<"None">>,
            HeadOf(CellOf(<<"N", "a", "m", "e">>), TRUE)
            \o RowOf(CellOf(<<"A", "l", "i", "c", "e">>)))
ScenarioDocs == {ScenarioA, ScenarioB, ScenarioC}

Docs ==
    NestDocs \cup LeafDocs \cup HeadingDocs \cup InlineDocs \cup TaskDocs
    \cup TableDocs \cup CodeDocs \cup MalformedDocs \cup ScenarioDocs

-----------------------------------------------------------------------------
(* The specification *)

Init ==
    /\ \/ events \in Docs /\ image_base_path = None
       \/ events \in ImageDocs /\ image_base_path \in Bases
    /\ stack = <<NewFrame(events, RootShell, Len(events))>>
    /\ result = <<>>
    /\ done = FALSE
    /\ call = <<>>
    /\ ClassifyOff /\ HighlightOff /\ CatalogOff /\ ComponentOff

Next ==
    \/ StartParagraph
    \/ StartHeading
    \/ StartBlockQuote
    \/ StartCodeBlock
    \/ StartList
    \/ StartItem
    \/ StartFootnoteDefinition
    \/ StartTable
    \/ StartTableHead
    \/ StartTableRow
    \/ StartTableCell
    \/ StartEmphasis
    \/ StartStrong
    \/ StartStrikethrough
    \/ StartLink
    \/ StartImage
    \/ EndTag
    \/ TextEvent
    \/ CodeEvent
    \/ HtmlEvent
    \/ FootnoteReferenceEvent
    \/ SoftBreakEvent
    \/ HardBreakEvent
    \/ RuleEvent
    \/ TaskListMarkerEvent
    \/ Return
    \/ Finish

Spec == Init /\ [][Next]_vars

-----------------------------------------------------------------------------
(* highlight_code_to_lines: the language token and the class of a span *)

UpperLetters ==
    <<"A", "B", "C", "D", "E", "F", "G", "H", "I", "J", "K", "L", "M",
      "N", "O", "P", "Q", "R", "S", "T", "U", "V", "W", "X", "Y", "Z">>
LowerLetters ==
    <<"a", "b", "c", "d", "e", "f", "g", "h", "i", "j", "k", "l", "m",
      "n", "o", "p", "q", "r", "s", "t", "u", "v", "w", "x", "y", "z">>

is_uppercase(c) == \E n \in 1..Len(UpperLetters) : UpperLetters[n] = c
is_numeric(c) == c \in {"0", "1", "2", "3", "4", "5", "6", "7", "8", "9"}

to_lowercase(s) ==
    [n \in 1..Len(s) |->
        IF is_uppercase(s[n])
        THEN LowerLetters[CHOOSE k \in 1..Len(UpperLetters) : UpperLetters[k] = s[n]]
        ELSE s[n]]

ends_with(s, p) == Len(s) >= Len(p) /\ SubSeq(s, Len(s) - Len(p) + 1, Len(s)) = p
contains(s, p) == \E n \in 1..(Len(s) - Len(p) + 1) : SubSeq(s, n, n + Len(p) - 1) = p

\* The names the match of language_token knows, each with its syntect token.
LanguageNames ==
    {<<<<"j", "s">>, <<"j", "s">>>>,
     <<<<"j", "a", "v", "a", "s", "c", "r", "i", "p", "t">>, <<"j", "s">>>>,
     <<<<"c", "s", "s">>, <<"c", "s", "s">>>>,
     <<<<"h", "t", "m", "l">>, <<"h", "t", "m", "l">>>>,
     <<<<"t", "y", "p", "e", "s", "c", "r", "i", "p", "t">>,
       <<"t", "y", "p", "e", "s", "c", "r", "i", "p", "t">>>>,
     <<<<"t", "s">>, <<"t", "y", "p", "e", "s", "c", "r", "i", "p", "t">>>>,
     <<<<"p", "y", "t", "h", "o", "n">>, <<"p", "y", "t", "h", "o", "n">>>>,
     <<<<"p", "y">>, <<"p", "y", "t", "h", "o", "n">>>>,
     <<<<"r", "u", "b", "y">>, <<"r", "u", "b", "y">>>>,
     <<<<"r", "b">>, <<"r", "u", "b", "y">>>>,
     <<<<"r", "u", "s", "t">>, <<"r", "u", "s", "t">>>>,
     <<<<"r", "s">>, <<"r", "u", "s", "t">>>>,
     <<<<"g", "o">>, <<"g", "o">>>>,
     <<<<"j", "a", "v", "a">>, <<"j", "a", "v", "a">>>>,
     <<<<"c">>, <<"c">>>>,
     <<<<"c", "p", "p">>, <<"c", "p", "p">>>>,
     <<<<"c", "+", "+">>, <<"c", "p", "p">>>>,
     <<<<"c", "s", "h", "a", "r", "p">>, <<"c", "s">>>>,
     <<<<"c", "#">>, <<"c", "s">>>>,
     <<<<"p", "h", "p">>, <<"p", "h", "p">>>>,
     <<<<"s", "h", "e", "l", "l">>, <<"b", "a", "s", "h">>>>,
     <<<<"b", "a", "s", "h">>, <<"b", "a", "s", "h">>>>,
     <<<<"s", "h">>, <<"b", "a", "s", "h">>>>,
     <<<<"y", "a", "m", "l">>, <<"y", "a", "m", "l">>>>,
     <<<<"y", "m", "l">>, <<"y", "a", "m", "l">>>>,
     <<<<"j", "s", "o", "n">>, <<"j", "s", "o", "n">>>>,
     <<<<"m", "a", "r", "k", "d", "o", "w", "n">>, <<"m", "a", "r", "k", "d", "o", "w", "n">>>>,
     <<<<"m", "d">>, <<"m", "a", "r", "k", "d", "o", "w", "n">>>>,
     <<<<"s", "q", "l">>, <<"s", "q", "l">>>>}

\* A match on the language as written, without to_lowercase.
language_token_case_sensitive(language) ==
    IF \E p \in LanguageNames : p[1] = language
    THEN (CHOOSE p \in LanguageNames : p[1] = language)[2]
    ELSE language

\* let language_token = match language.to_lowercase().as_str() { ... }
language_token(language) ==
    IF \E p \in LanguageNames : p[1] = to_lowercase(language)
    THEN (CHOOSE p \in LanguageNames : p[1] = to_lowercase(language))[2]
    ELSE language

\* The tokens the catalog has a grammar for: here those the match maps to and
\* one it does not name.
CatalogTokens == {p[2] : p \in LanguageNames} \cup {<<"l", "u", "a">>}
PlainText == <<"P", "l", "a", "i", "n", " ", "T", "e", "x", "t">>

\* find_syntax_by_token(..).or_else(find_syntax_by_extension(..))
\*     .unwrap_or_else(find_syntax_plain_text)
find_syntax(token) == IF token \in CatalogTokens THEN token ELSE PlainText

\* syntect::highlighting::Color and Style (the foreground and the italic flag)
Color(r, g, b, a) == [r |-> r, g |-> g, b |-> b, a |-> a]
Style(foreground, italic) == [foreground |-> foreground, italic |-> italic]

\* The Dracula colours of the match on style.foreground, each with its class.
Palette ==
    {<<255, 121, 198, "keyword">>, <<80, 250, 123, "function">>,
     <<98, 114, 164, "comment">>, <<241, 250, 140, "string">>,
     <<189, 147, 249, "number">>, <<139, 233, 253, "type">>,
     <<248, 248, 242, "text">>}

InPalette(c) == \E p \in Palette : p[1] = c.r /\ p[2] = c.g /\ p[3] = c.b
PaletteClass(c) == (CHOOSE p \in Palette : p[1] = c.r /\ p[2] = c.g /\ p[3] = c.b)[4]

Quote == <<"\"">>
Apostrophe == <<"'">>

\* text.chars().all(|c| c.is_numeric() || c == '.' || c == '_')
AllNumeric(text) == \A n \in 1..Len(text) : is_numeric(text[n]) \/ text[n] \in {".", "_"}

\* text.chars().next().map_or(false, |c| c.is_uppercase())
StartsUppercase(text) == text # <<>> /\ is_uppercase(text[1])

\* The "js" arm of the match on language_token
JsClass(text) ==
    IF text \in {<<"f", "u", "n", "c", "t", "i", "o", "n">>, <<"c", "o", "n", "s", "t">>,
                 <<"l", "e", "t">>, <<"v", "a", "r">>, <<"r", "e", "t", "u", "r", "n">>}
    THEN "keyword"
    ELSE IF text \in {<<"t", "r", "u", "e">>, <<"f", "a", "l", "s", "e">>} THEN "bool"
    ELSE IF \/ starts_with(text, Quote) /\ ends_with(text, Quote)
            \/ starts_with(text, Apostrophe) /\ ends_with(text, Apostrophe)
    THEN "string"
    ELSE IF starts_with(text, <<"<">>) /\ ends_with(text, <<">">>) THEN "type"
    ELSE IF AllNumeric(text) THEN "number"
    ELSE IF starts_with(text, <<"/", "/">>) THEN "comment"
    ELSE IF StartsUppercase(text) THEN "type"
    ELSE "text"

\* The comment rule is tried before the tag rule.
HtmlClass_comment_first(text) ==
    IF starts_with(text, <<"<", "!", "-", "-">>) \/ ends_with(text, <<"-", "-", ">">>)
    THEN "comment"
    ELSE IF starts_with(text, <<"<">>) /\ contains(text, <<">">>) THEN "keyword"
    ELSE IF starts_with(text, Quote) /\ ends_with(text, Quote) THEN "string"
    ELSE "text"

\* The "html" arm
HtmlClass(text) ==
    IF starts_with(text, <<"<">>) /\ contains(text, <<">">>) THEN "keyword"
    ELSE IF starts_with(text, Quote) /\ ends_with(text, Quote) THEN "string"
    ELSE IF starts_with(text, <<"<", "!", "-", "-">>) \/ ends_with(text, <<"-", "-", ">">>)
    THEN "comment"
    ELSE "text"

\* The rule for hex colours is tried before the selector rule.
CssClass_hex_first(text) ==
    IF ends_with(text, <<":">>) THEN "keyword"
    ELSE IF starts_with(text, <<"#">>) /\ (ByteLen(text) = 4 \/ ByteLen(text) = 7)
    THEN "string"
    ELSE IF starts_with(text, <<".">>) \/ starts_with(text, <<"#">>) THEN "type"
    ELSE IF \/ ends_with(text, <<"p", "x">>) \/ ends_with(text, <<"e", "m">>)
            \/ ends_with(text, <<"r", "e", "m">>) \/ ends_with(text, <<"%">>)
    THEN "number"
    ELSE IF starts_with(text, <<"/", "*">>) \/ ends_with(text, <<"*", "/">>) THEN "comment"
    ELSE "text"

\* The "css" arm
CssClass(text) ==
    IF ends_with(text, <<":">>) THEN "keyword"
    ELSE IF starts_with(text, <<".">>) \/ starts_with(text, <<"#">>) THEN "type"
    ELSE IF \/ ends_with(text, <<"p", "x">>) \/ ends_with(text, <<"e", "m">>)
            \/ ends_with(text, <<"r", "e", "m">>) \/ ends_with(text, <<"%">>)
    THEN "number"
    ELSE IF starts_with(text, <<"#">>) /\ (ByteLen(text) = 4 \/ ByteLen(text) = 7)
    THEN "string"
    ELSE IF starts_with(text, <<"/", "*">>) \/ ends_with(text, <<"*", "/">>) THEN "comment"
    ELSE "text"

\* The arm of every other language token
OtherClass(text) ==
    IF starts_with(text, <<"#", "[", "d", "e", "r", "i", "v", "e">>) THEN "attribute"
    ELSE IF starts_with(text, <<"#", "[">>) \/ starts_with(text, <<"@">>) THEN "attribute"
    ELSE IF text \in {<<"t", "r", "u", "e">>, <<"f", "a", "l", "s", "e">>} THEN "bool"
    ELSE IF \/ starts_with(text, <<"f", "n", " ">>)
            \/ starts_with(text, <<"s", "t", "r", "u", "c", "t", " ">>)
            \/ starts_with(text, <<"e", "n", "u", "m", " ">>)
    THEN "keyword"
    ELSE IF text \in {<<"l", "e", "t">>, <<"m", "u", "t">>, <<"c", "o", "n", "s", "t">>,
                      <<"r", "e", "t", "u", "r", "n">>}
    THEN "keyword"
    ELSE IF AllNumeric(text) THEN "number"
    ELSE IF starts_with(text, Quote) /\ ends_with(text, Quote) THEN "string"
    ELSE IF starts_with(text, <<"/", "/">>) THEN "comment"
    ELSE IF StartsUppercase(text) THEN "type"
    ELSE "text"

\* The palette is looked at before the italic flag.
class_name_palette_first(style, text, token) ==
    IF InPalette(style.foreground) THEN PaletteClass(style.foreground)
    ELSE IF style.italic THEN "type"
    ELSE IF token = <<"j", "s">> THEN JsClass(text)
    ELSE IF token = <<"h", "t", "m", "l">> THEN HtmlClass(text)
    ELSE IF token = <<"c", "s", "s">> THEN CssClass(text)
    ELSE OtherClass(text)

\* The typescript token shares the arm of "js".
class_name_ts_as_js(style, text, token) ==
    IF style.italic THEN "type"
    ELSE IF InPalette(style.foreground) THEN PaletteClass(style.foreground)
    ELSE IF token \in {<<"j", "s">>, <<"t", "y", "p", "e", "s", "c", "r", "i", "p", "t">>}
    THEN JsClass(text)
    ELSE IF token = <<"h", "t", "m", "l">> THEN HtmlClass(text)
    ELSE IF token = <<"c", "s", "s">> THEN CssClass(text)
    ELSE OtherClass(text)

\* let class_name = if style.font_style.contains(ITALIC) { ... } else { match ... }
class_name(style, text, token) ==
    IF style.italic THEN "type"
    ELSE IF InPalette(style.foreground) THEN PaletteClass(style.foreground)
    ELSE IF token = <<"j", "s">> THEN JsClass(text)
    ELSE IF token = <<"h", "t", "m", "l">> THEN HtmlClass(text)
    ELSE IF token = <<"c", "s", "s">> THEN CssClass(text)
    ELSE OtherClass(text)

\* The spans the highlighter can hand to the classifier.
SpanColors ==
    {Color(p[1], p[2], p[3], 255) : p \in Palette}
    \cup {Color(1, 2, 3, 255), Color(1, 2, 3, 0), Color(255, 121, 198, 0)}
SpanStyles ==
    {Style(c, FALSE) : c \in SpanColors}
    \cup {Style(Color(1, 2, 3, 255), TRUE), Style(Color(255, 121, 198, 255), TRUE)}
SpanTexts ==
    {<<>>, <<"c", "o", "n", "s", "t">>, <<"t", "r", "u", "e">>, <<"l", "e", "t">>,
     <<"\"", "s", "\"">>, <<"'", "s", "'">>, <<"<", "T", ">">>, <<"1", ".", "5">>,
     <<"/", "/", "c">>, <<"F", "o", "o">>, <<"f", "o", "o">>, <<"x", ":">>,
     <<".", "c">>, <<"#", "f", "f", "f">>, <<"#", "f">>, <<"#", "f", ":">>,
     <<"9", "p", "x">>, <<"/", "*", "c">>, <<"#", "[", "d">>, <<"@", "a">>,
     <<"f", "n", " ", "f">>, <<"<", "!", "-", "-", "c", "-", "-", ">">>,
     <<"<", "!", "-", "-", "c">>, <<"c", "-", "-", ">">>}
SpanLanguages ==
    {<<"j", "s">>, <<"J", "S">>, <<"j", "a", "v", "a", "s", "c", "r", "i", "p", "t">>,
     <<"c", "s", "s">>, <<"C", "s", "s">>, <<"h", "t", "m", "l">>, <<"H", "T", "M", "L">>,
     <<"r", "s">>, <<"t", "s">>, <<"l", "u", "a">>, <<"z", "z">>}
OtherLanguages == {<<"j", "s">>, <<"J", "S">>, <<"c", "s", "s">>, <<"Z", "Z">>}

Span2(style, text, language) == [style |-> style, text |-> text, language |-> language]

\* Two spans, of one code block or of two, wait for their class: the second
\* has the style of the first and its text or another one.
ClassifyInit ==
    /\ \E s \in SpanStyles, t \in SpanTexts, l1 \in SpanLanguages, l2 \in OtherLanguages :
          \E t2 \in {t, <<"f", "o", "o">>} :
              spans = <<Span2(s, t, l1), Span2(s, t2, l2)>>
    /\ class_names = <<>>
    /\ syntaxes = <<>>
    /\ RenderOff /\ HighlightOff /\ CatalogOff /\ ComponentOff

\* The closure of the map over the ranges, for the next span.
ClassifySpan ==
    /\ Len(class_names) < Len(spans)
    /\ LET span == spans[Len(class_names) + 1] IN
       /\ syntaxes' = Append(syntaxes, find_syntax(language_token(span.language)))
       /\ class_names' = Append(class_names,
                                class_name(span.style, span.text,
                                           language_token(span.language)))
    /\ UNCHANGED <<spans, render_vars, highlight_vars, catalog_vars, component_vars>>

ClassifyNext == ClassifySpan

ClassifySpec == ClassifyInit /\ [][ClassifyNext]_vars

-----------------------------------------------------------------------------
(* highlight_code_to_lines: the loop over the lines of a code block *)

\* line.replace("\t", "    ")
RECURSIVE replace_tabs(_)
replace_tabs(line) ==
    IF line = <<>> THEN <<>>
    ELSE (IF Head(line) = "\t" THEN <<" ", " ", " ", " ">> ELSE <<Head(line)>>)
         \o replace_tabs(Tail(line))

\* What highlighter.highlight_line can answer for a line: Err, or Ok with the
\* line as ranges of (style, text), here the whole line, its first character
\* and the rest, or no range for an empty line.
RangeStyles == {Style(Color(255, 121, 198, 255), FALSE), Style(Color(1, 2, 3, 255), FALSE)}
Range(style, text) == [style |-> style, text |-> text]
Ranges(line) ==
    {<<Range(s, line)>> : s \in RangeStyles}
    \cup (IF Len(line) >= 2
          THEN {<<Range(s1, SubSeq(line, 1, 1)), Range(s2, SubSeq(line, 2, Len(line)))>> :
                    s1 \in RangeStyles, s2 \in RangeStyles}
          ELSE IF line = <<>> THEN {<<>>} ELSE {})

Segment(text, class) == [text |-> text, class |-> class]

HighlightCodes ==
    {<<>>, <<"a", "\t", "b">>, <<"a", "\t", "b", "\n", "c">>,
     <<"c", "\n", "\n", "\t", "a">>, <<"'", "s", "'", "\n", "b", "\n", "c", "\n">>}
HighlightLanguages == {<<"j", "s">>, <<"z", "z">>}

HighlightInit ==
    /\ code \in HighlightCodes
    /\ code_language \in HighlightLanguages
    /\ next_line = 1
    /\ highlighted_lines = <<>>
    /\ outcomes = <<>>
    /\ highlighted = FALSE
    /\ RenderOff /\ ClassifyOff /\ CatalogOff /\ ComponentOff

\* for line in code.lines(): the line the loop is at
InLines == ~highlighted /\ next_line <= Len(Lines(code))
line_with_spaces == replace_tabs(Lines(code)[next_line])

\* The Err arm pushes nothing and leaves the loop.
HighlightLineErr_abort ==
    /\ InLines
    /\ outcomes' = Append(outcomes, [ok |-> FALSE, ranges |-> <<>>])
    /\ highlighted' = TRUE
    /\ UNCHANGED <<code, code_language, next_line, highlighted_lines,
                   render_vars, classify_vars, catalog_vars, component_vars>>

\* Ok(ranges) => highlighted_lines.push(colored_segments)
HighlightLineOk ==
    /\ InLines
    /\ \E ranges \in Ranges(line_with_spaces) :
          /\ highlighted_lines' =
                 Append(highlighted_lines,
                        [n \in 1..Len(ranges) |->
                            Segment(ranges[n].text,
                                    class_name(ranges[n].style, ranges[n].text,
                                               language_token(code_language)))])
          /\ outcomes' = Append(outcomes, [ok |-> TRUE, ranges |-> ranges])
    /\ next_line' = next_line + 1
    /\ UNCHANGED <<code, code_language, highlighted,
                   render_vars, classify_vars, catalog_vars, component_vars>>

\* Err(_) => highlighted_lines.push(vec![(line_with_spaces, "text")])
HighlightLineErr ==
    /\ InLines
    /\ highlighted_lines' = Append(highlighted_lines, <<Segment(line_with_spaces, "text")>>)
    /\ outcomes' = Append(outcomes, [ok |-> FALSE, ranges |-> <<>>])
    /\ next_line' = next_line + 1
    /\ UNCHANGED <<code, code_language, highlighted,
                   render_vars, classify_vars, catalog_vars, component_vars>>

\* The loop is over: highlighted_lines is returned.
HighlightReturn ==
    /\ ~highlighted
    /\ next_line > Len(Lines(code))
    /\ highlighted' = TRUE
    /\ UNCHANGED <<code, code_language, next_line, highlighted_lines, outcomes,
                   render_vars, classify_vars, catalog_vars, component_vars>>

HighlightNext ==
    \/ HighlightLineOk
    \/ HighlightLineErr
    \/ HighlightReturn

HighlightSpec == HighlightInit /\ [][HighlightNext]_vars

-----------------------------------------------------------------------------
(* get_syntax_set, get_theme_set: the OnceLock statics under concurrent renders *)

Threads == {1, 2, 3}
MaxRenders == 2

Statics == {"SYNTAX_SET", "THEME_SET"}

\* OnceLock::new()
OnceLockNew == [state |-> "incomplete", value |-> 0]

\* An initializer that does not look whether another one is running.
CanInitialize_unguarded(cell) == cell.state # "complete"

\* get_or_init lets one caller run the closure: the one that finds the cell
\* incomplete; the callers that find it running wait for the value.
CanInitialize(cell) == cell.state = "incomplete"

CatalogInit ==
    /\ once = [s \in Statics |-> OnceLockNew]
    /\ constructions = [s \in Statics |-> 0]
    /\ pc = [t \in Threads |-> "idle"]
    /\ returned = [t \in Threads |-> [s \in Statics |-> 0]]
    /\ renders = [t \in Threads |-> 0]
    /\ RenderOff /\ ClassifyOff /\ HighlightOff /\ ComponentOff

\* A render reaches a code block and calls highlight_code_to_lines.
CallHighlight(t) ==
    /\ pc[t] = "idle"
    /\ renders[t] < MaxRenders
    /\ renders' = [renders EXCEPT ![t] = @ + 1]
    /\ pc' = [pc EXCEPT ![t] = "get_syntax_set"]
    /\ returned' = [returned EXCEPT ![t] = [s \in Statics |-> 0]]
    /\ UNCHANGED <<once, constructions>>

\* STATIC.get_or_init(..): the value if there is one, else the caller becomes
\* the initializer if it may.
GetOrInit(t, static, at, running, after) ==
    /\ pc[t] = at
    /\ \/ /\ once[static].state = "complete"
          /\ returned' = [returned EXCEPT ![t][static] = once[static].value]
          /\ pc' = [pc EXCEPT ![t] = after]
          /\ UNCHANGED <<once, constructions, renders>>
       \/ /\ CanInitialize(once[static])
          /\ once' = [once EXCEPT ![static].state = "running"]
          /\ pc' = [pc EXCEPT ![t] = running]
          /\ UNCHANGED <<returned, constructions, renders>>

\* The closure constructs the set; the cell keeps it and the caller gets it.
RunInit(t, static, running, after) ==
    /\ pc[t] = running
    /\ constructions' = [constructions EXCEPT ![static] = @ + 1]
    /\ once' = [once EXCEPT ![static] = [state |-> "complete",
                                         value |-> constructions[static] + 1]]
    /\ returned' = [returned EXCEPT ![t][static] = constructions[static] + 1]
    /\ pc' = [pc EXCEPT ![t] = after]
    /\ UNCHANGED renders

get_syntax_set ==
    /\ \E t \in Threads :
           GetOrInit(t, "SYNTAX_SET", "get_syntax_set", "load_syntax_set", "get_theme_set")
    /\ UNCHANGED <<render_vars, classify_vars, highlight_vars, component_vars>>

load_defaults_newlines ==
    /\ \E t \in Threads : RunInit(t, "SYNTAX_SET", "load_syntax_set", "get_theme_set")
    /\ UNCHANGED <<render_vars, classify_vars, highlight_vars, component_vars>>

get_theme_set ==
    /\ \E t \in Threads :
           GetOrInit(t, "THEME_SET", "get_theme_set", "load_theme_set", "highlighting")
    /\ UNCHANGED <<render_vars, classify_vars, highlight_vars, component_vars>>

load_defaults ==
    /\ \E t \in Threads : RunInit(t, "THEME_SET", "load_theme_set", "highlighting")
    /\ UNCHANGED <<render_vars, classify_vars, highlight_vars, component_vars>>

highlight_code_to_lines ==
    /\ \E t \in Threads : CallHighlight(t)
    /\ UNCHANGED <<render_vars, classify_vars, highlight_vars, component_vars>>

\* The call tears the sets down when it returns.
ReturnHighlight_teardown ==
    /\ \E t \in Threads :
          /\ pc[t] = "highlighting"
          /\ pc' = [pc EXCEPT ![t] = "idle"]
    /\ once' = [s \in Statics |-> OnceLockNew]
    /\ UNCHANGED <<constructions, returned, renders,
                   render_vars, classify_vars, highlight_vars, component_vars>>

\* The call has both references, highlights with them and returns.
ReturnHighlight ==
    /\ \E t \in Threads :
          /\ pc[t] = "highlighting"
          /\ pc' = [pc EXCEPT ![t] = "idle"]
    /\ UNCHANGED <<once, constructions, returned, renders,
                   render_vars, classify_vars, highlight_vars, component_vars>>

CatalogNext ==
    \/ highlight_code_to_lines
    \/ get_syntax_set
    \/ load_defaults_newlines
    \/ get_theme_set
    \/ load_defaults
    \/ ReturnHighlight

CatalogSpec == CatalogInit /\ [][CatalogNext]_vars

-----------------------------------------------------------------------------
(* The Markdown component: the content that is parsed and rendered *)

Paths == {<<"f">>, <<"g">>}
FileTexts == {<<>>, <<"a">>, <<"c">>}
ReadOk(text) == [ok |-> TRUE, text |-> text]
ReadErr == [ok |-> FALSE]

\* A choice that drops the provided content when the read fails.
final_content_of_empty_on_error(path, read, provided) ==
    IF IsSome(path)
    THEN IF read.ok THEN read.text ELSE <<>>
    ELSE provided

\* let final_content = if let Some(path) = file_path { match fs::read_to_string .. }
final_content_of(path, read, provided) ==
    IF IsSome(path)
    THEN IF read.ok THEN read.text ELSE provided
    ELSE provided

ComponentInit ==
    /\ content_prop \in {None, Some(<<>>), Some(<<"a">>), Some(<<"b">>)}
    /\ file_path \in {None} \cup {Some(p) : p \in Paths}
    /\ files \in [Paths -> {ReadErr} \cup {ReadOk(t) : t \in FileTexts}]
    /\ content_str = <<>>
    /\ final_content = <<>>
    /\ parsed = None
    /\ stderr = <<>>
    /\ stage = "props"
    /\ RenderOff /\ ClassifyOff /\ HighlightOff /\ CatalogOff

\* let content_str = content.unwrap_or_else(|| String::new());
UnwrapContent ==
    /\ stage = "props"
    /\ content_str' = IF IsSome(content_prop) THEN Unwrap(content_prop) ELSE <<>>
    /\ stage' = "content_str"
    /\ UNCHANGED <<content_prop, file_path, files, final_content, parsed, stderr,
                   render_vars, classify_vars, highlight_vars, catalog_vars>>

\* The file is read if a path is given; a failed read is written to stderr.
ReadFile ==
    /\ stage = "content_str"
    /\ LET read == IF IsSome(file_path) THEN files[Unwrap(file_path)] ELSE ReadErr IN
       /\ final_content' = final_content_of(file_path, read, content_str)
       /\ stderr' = IF IsSome(file_path) /\ ~read.ok
                    THEN Append(stderr, "Error reading markdown file") ELSE stderr
    /\ stage' = "final_content"
    /\ UNCHANGED <<content_prop, file_path, files, content_str, parsed,
                   render_vars, classify_vars, highlight_vars, catalog_vars>>

\* Parser::new_ext(&final_content, options): the events are rendered.
ParseContent ==
    /\ stage = "final_content"
    /\ parsed' = Some(final_content)
    /\ stage' = "rendered"
    /\ UNCHANGED <<content_prop, file_path, files, content_str, final_content, stderr,
                   render_vars, classify_vars, highlight_vars, catalog_vars>>

ComponentNext ==
    \/ UnwrapContent
    \/ ReadFile
    \/ ParseContent

ComponentSpec == ComponentInit /\ [][ComponentNext]_vars

-----------------------------------------------------------------------------
(* What the claims speak of: nesting, independent of the renderer *)

\* Every End closes the innermost open Start, with the same tag, and nothing
\* stays open.
RECURSIVE WellNested(_, _, _)
WellNested(evs, n, open) ==
    IF n > Len(evs) THEN open = <<>>
    ELSE IF evs[n].k = "Start" THEN WellNested(evs, n + 1, Append(open, evs[n].tag))
    ELSE IF evs[n].k = "End"
    THEN /\ open # <<>>
         /\ open[Len(open)] = evs[n].tag
         /\ WellNested(evs, n + 1, SubSeq(open, 1, Len(open) - 1))
    ELSE WellNested(evs, n + 1, open)

WellFormed(evs) == WellNested(evs, 1, <<>>)

\* The 0-based position of the End that closes the Start at 0-based position s
\* of a well-formed sequence: the first position where as many tags of any
\* kind have closed as have opened.
RECURSIVE NestScan(_, _, _)
NestScan(evs, j, nest) ==
    IF j >= Len(evs) THEN Len(evs)
    ELSE IF At(evs, j).k = "Start" THEN NestScan(evs, j + 1, nest + 1)
    ELSE IF At(evs, j).k = "End"
    THEN IF nest = 1 THEN j ELSE NestScan(evs, j + 1, nest - 1)
    ELSE NestScan(evs, j + 1, nest)

MatchingEnd(evs, s) == NestScan(evs, s, 0)

\* The events strictly between the Start at s and its matching End.
Between(evs, s) == SubSeq(evs, s + 2, MatchingEnd(evs, s))

BeginsWithMarker(str) ==
    /\ Len(str) >= 4
    /\ str[1] = "[" /\ str[2] \in {" ", "x", "X"} /\ str[3] = "]" /\ str[4] = " "

\* The first Text event of a sequence, as an Option.
FirstText(evs) ==
    LET at == {n \in 1..Len(evs) : evs[n].k = "Text"}
    IN  IF at = {} THEN None ELSE Some(evs[CHOOSE n \in at : \A m \in at : n <= m])

FirstTextIsMarker(evs) == IsSome(FirstText(evs)) /\ BeginsWithMarker(Unwrap(FirstText(evs)).s)

\* A call of the depth matcher on a well-formed sequence, at a Start its probe matches.
GoodCall(c) ==
    /\ WellFormed(c.events)
    /\ At(c.events, c.start_index).k = "Start"
    /\ tag_matches(At(c.events, c.start_index).tag, c.start_tag)

\* The frames of the recursive calls, each with the frame of its caller, whose
\* cursor stays on the Start while the call runs.
Calls == {d \in 2..Len(stack) : TRUE}
Callee(d) == stack[d]
Caller(d) == stack[d - 1]

-----------------------------------------------------------------------------
(* The claims *)

\* C1: on a well-formed sequence, called at a Start(t) with a probe matching t,
\* the depth matcher returns the position of the matching End plus one.
C1_EndIndexOnePastMatchingEnd ==
    \A n \in 1..Len(call) :
        GoodCall(call[n]) =>
            call[n].new_index = MatchingEnd(call[n].events, call[n].start_index) + 1

\* C2: on a well-formed sequence, called at a Start(t) with a probe matching t,
\* the depth matcher returns exactly the events strictly between that Start
\* and its matching End, in order, and stops at that End, not at an earlier
\* End of the same kind.
C2_InnerEventsExact ==
    \A n \in 1..Len(call) :
        GoodCall(call[n]) =>
            /\ call[n].content = Between(call[n].events, call[n].start_index)
            /\ call[n].new_index = MatchingEnd(call[n].events, call[n].start_index)

\* A call whose span holds a nested Start and End of the probe's kind.
C2_Witness ==
    /\ call # <<>>
    /\ GoodCall(call[1])
    /\ \E j \in (call[1].start_index + 1)..(call[1].new_index - 2) :
          /\ At(call[1].events, j).k = "Start"
          /\ tag_matches(At(call[1].events, j).tag, call[1].start_tag)
          /\ At(call[1].events, j + 1).k = "End"
          /\ tag_matches(At(call[1].events, j + 1).tag, call[1].start_tag)
    /\ Len(call[1].content) = call[1].new_index - call[1].start_index - 1

\* The element roles the tags of claim C3 map to, and the nesting of the
\* elements of those roles in a tree (other elements and text are passed through).
MirroredKinds ==
    {"Paragraph", "BlockQuote", "List", "Item", "Table", "TableRow",
     "Emphasis", "Strong", "Strikethrough", "Link"}
MirroredRoles == {"p", "blockquote", "ol", "ul", "li", "table", "tr", "em", "strong", "del", "a"}

RoleOfTag(tag) ==
    CASE tag.kind = "Paragraph" -> "p"
      [] tag.kind = "BlockQuote" -> "blockquote"
      [] tag.kind = "List" -> IF IsSome(tag.num) THEN "ol" ELSE "ul"
      [] tag.kind = "Item" -> "li"
      [] tag.kind = "Table" -> "table"
      [] tag.kind = "TableRow" -> "tr"
      [] tag.kind = "Emphasis" -> "em"
      [] tag.kind = "Strong" -> "strong"
      [] tag.kind = "Strikethrough" -> "del"
      [] tag.kind = "Link" -> "a"
      [] OTHER -> "other"

IsElement(node) == "children" \in DOMAIN node

RECURSIVE NodeSkeleton(_)
NodeSkeleton(nodes) ==
    IF nodes = <<>> THEN <<>>
    ELSE LET node == Head(nodes)
             below == IF IsElement(node) THEN NodeSkeleton(node.children) ELSE <<>>
         IN  (IF IsElement(node) /\ node.role \in MirroredRoles
              THEN <<[role |-> node.role, children |-> below]>>
              ELSE below)
             \o NodeSkeleton(Tail(nodes))

\* The nesting of the tags of those kinds in a well-formed event sequence.
RECURSIVE EventSkeleton(_)
EventSkeleton(evs) ==
    IF evs = <<>> THEN <<>>
    ELSE IF Head(evs).k = "Start"
    THEN LET below == EventSkeleton(Between(evs, 0))
             after == EventSkeleton(SubSeq(evs, MatchingEnd(evs, 0) + 2, Len(evs)))
         IN  (IF Head(evs).tag.kind \in MirroredKinds
              THEN <<[role |-> RoleOfTag(Head(evs).tag), children |-> below]>>
              ELSE below)
             \o after
    ELSE EventSkeleton(Tail(evs))

\* C3: for a well-formed event sequence the rendered tree mirrors the tag
\* nesting: every Start of kind Paragraph, BlockQuote, List, ListItem, Table,
\* TableRow, Emphasis, Strong, Strikethrough or Link yields exactly one element
\* of the mapped role, around the rendering of the events up to its matching
\* End, followed by the elements of the events after that End; scenario A
\* renders as p[ strong[ text("hi") ] ].
C3_TreeMirrorsNesting ==
    (done /\ WellFormed(events)) =>
        /\ NodeSkeleton(result) = EventSkeleton(events)
        /\ events = ScenarioA =>
              result = <<[role |-> "p", class |-> "markdown-paragraph",
                          children |-> <<[role |-> "strong", class |-> "markdown-strong",
                                          children |-> <<Span(<<"h", "i">>)>>]>>]>>

\* The headings that carry an id or classes ({#id .class}).
HasAttributedHeading(evs) ==
    \E n \in 1..Len(evs) :
        /\ evs[n].k = "Start"
        /\ evs[n].tag.kind = "Heading"
        /\ (evs[n].tag.id # None \/ evs[n].tag.classes # <<>>)

\* The tree mirrors the nesting whenever no heading of the sequence carries an
\* id or classes.
TreeMirrorsNestingWithoutHeadingAttributes ==
    (done /\ WellFormed(events) /\ ~HasAttributedHeading(events)) =>
        NodeSkeleton(result) = EventSkeleton(events)

\* C4: for every Start(Heading(n, id, classes)) of a well-formed sequence, the
\* probe render passes to the depth matcher matches that Start, so the call
\* returns that heading's own inner events and the position of its End.
C4_HeadingProbeMatches ==
    \A n \in 1..Len(call) :
        LET c == call[n] IN
        (WellFormed(c.events) /\ At(c.events, c.start_index).tag.kind = "Heading") =>
            /\ tag_matches(At(c.events, c.start_index).tag, c.start_tag)
            /\ c.content = Between(c.events, c.start_index)
            /\ c.new_index = MatchingEnd(c.events, c.start_index)

\* Every cell element below a thead is a th, every other cell element a td.
RECURSIVE CellRolesFollowHead(_, _)
CellRolesFollowHead(nodes, in_head) ==
    \A n \in 1..Len(nodes) :
        IsElement(nodes[n]) =>
            /\ nodes[n].role = "th" => in_head
            /\ nodes[n].role = "td" => ~in_head
            /\ CellRolesFollowHead(nodes[n].children, in_head \/ nodes[n].role = "thead")

\* C5: in the rendering of a well-formed table every TableCell inside a
\* TableHead subtree is a header cell (th) and every other TableCell a data
\* cell (td).
C5_HeadCellsAreHeaderCells ==
    (done /\ WellFormed(events)) => CellRolesFollowHead(result, FALSE)

\* The event right after position i is a Text that begins with a task marker.
NextIsMarkerText(evs, i) ==
    /\ i + 1 < Len(evs)
    /\ At(evs, i + 1).k = "Text"
    /\ BeginsWithMarker(At(evs, i + 1).s)

TaskListClass == "markdown-list markdown-task-list"

\* C6 as claimed: a ListItem is rendered as a task item if and only if the first
\* Text event between its Start and its matching End begins with "[ ] ",
\* "[x] " or "[X] ".
C6_TaskItemIffFirstTextIsMarker ==
    \A d \in Calls :
        (Callee(d).shell.role = "li" /\ WellFormed(Caller(d).events)) =>
            (IsTaskItemShell(Callee(d).shell)
                <=> FirstTextIsMarker(Between(Caller(d).events, Caller(d).i)))

\* C6 as amended: a ListItem is rendered as a task item if and only if the event
\* right after its Start is a Text event that begins with "[ ] ", "[x] " or
\* "[X] "; an item detected so always has that text as its first inner event.
C6_TaskItemIffNextEventIsMarkerText ==
    /\ \A d \in Calls :
           Callee(d).shell.role = "li" =>
               /\ At(Caller(d).events, Caller(d).i) = Start(Item)
               /\ IsTaskItemShell(Callee(d).shell)
                      <=> NextIsMarkerText(Caller(d).events, Caller(d).i)
    /\ \A n \in 1..Len(call) :
           (call[n].start_tag = Item
               /\ NextIsMarkerText(call[n].events, call[n].start_index)) =>
               /\ call[n].content # <<>>
               /\ call[n].content[1] = At(call[n].events, call[n].start_index + 1)

\* An item rendered as a task item, its marker text right after its Start.
C6_Witness ==
    \E d \in Calls :
        /\ Callee(d).shell.role = "li"
        /\ IsTaskItemShell(Callee(d).shell)
        /\ NextIsMarkerText(Caller(d).events, Caller(d).i)
        /\ WellFormed(Caller(d).events)

ScenarioBTree ==
    <<[role |-> "ul", class |-> TaskListClass,
       children |->
           <<[role |-> "li", class |-> "markdown-task-list-item",
              children |->
                  <<[role |-> "div", class |-> "markdown-task-checkbox-container",
                     children |->
                         <<[role |-> "div",
                            class |-> "markdown-task-checkbox markdown-task-checkbox-checked",
                            aria_role |-> "checkbox", aria_checked |-> "true",
                            tabindex |-> "0", children |-> <<>>],
                           [role |-> "span", class |-> "markdown-task-text",
                            children |-> <<Span(<<"D", "o", "n", "e">>)>>]>>]>>]>>]>>

\* Every task item of a tree holds a checkbox followed by the rendered content.
RECURSIVE TaskItemsWellShaped(_)
TaskItemsWellShaped(nodes) ==
    \A n \in 1..Len(nodes) :
        IsElement(nodes[n]) =>
            /\ TaskItemsWellShaped(nodes[n].children)
            /\ (nodes[n].role = "li" /\ nodes[n].class = "markdown-task-list-item") =>
                   /\ Len(nodes[n].children) = 1
                   /\ Len(nodes[n].children[1].children) = 2
                   /\ nodes[n].children[1].children[1].aria_role = "checkbox"
                   /\ nodes[n].children[1].children[1].children = <<>>
                   /\ nodes[n].children[1].children[2].role = "span"

\* C7: a detected task item is rendered as a checkbox followed by the rendering
\* of the item's inner events with the four-character marker cut from the
\* first text; the checkbox is checked for "[x] " and "[X] " and unchecked for
\* "[ ] "; scenario B renders as task-list[ task-item[ checkbox(checked),
\* text("Done") ] ].
C7_TaskItemCheckboxAndStrippedText ==
    /\ \A d \in Calls :
           (IsTaskItemShell(Callee(d).shell) /\ WellFormed(Caller(d).events)) =>
               LET inner == Between(Caller(d).events, Caller(d).i)
                   first == inner[1].s
                   box == Callee(d).shell.children[1].children[1]
               IN  /\ box.aria_role = "checkbox"
                   /\ box.aria_checked = (IF first[2] \in {"x", "X"} THEN "true" ELSE "false")
                   /\ Callee(d).shell.children[1].children[2].children = <<>>
                   /\ Callee(d).events = <<Text(SubSeq(first, 5, Len(first)))>> \o Tail(inner)
    /\ done => TaskItemsWellShaped(result)
    /\ (done /\ events = ScenarioB) => result = ScenarioBTree

\* A task item with the upper-case marker is being rendered, its checkbox
\* checked and its text without the marker.
C7_Witness ==
    \E d \in Calls :
        /\ IsTaskItemShell(Callee(d).shell)
        /\ WellFormed(Caller(d).events)
        /\ starts_with(At(Caller(d).events, Caller(d).i + 1).s, MarkerCheckedUpper)
        /\ Callee(d).shell.children[1].children[1].aria_checked = "true"
        /\ Callee(d).events[1] = Text(<<"D">>)

\* The first Text event of the first ListItem among the events begins with a marker.
FirstItemFirstTextIsMarker(inner) ==
    LET items == {n \in 1..Len(inner) : inner[n] = Start(Item)}
        first == CHOOSE n \in items : \A m \in items : n <= m
    IN  items # {} /\ FirstTextIsMarker(Between(inner, first - 1))

\* C8 as claimed: a List is marked as a task list if and only if the first Text
\* event of its first inner ListItem begins with "[ ] ", "[x] " or "[X] ".
C8_TaskListIffFirstItemFirstTextIsMarker ==
    \A d \in Calls :
        (Callee(d).shell.role \in {"ol", "ul"} /\ WellFormed(Caller(d).events)) =>
            (Callee(d).shell.class = TaskListClass
                <=> FirstItemFirstTextIsMarker(Between(Caller(d).events, Caller(d).i)))

\* C8 as amended: a List is marked as a task list if and only if the event
\* right after its Start is Start(ListItem) and the event right after that is
\* a Text event that begins with "[ ] ", "[x] " or "[X] ".
C8_TaskListIffItemThenMarkerText ==
    \A d \in Calls :
        Callee(d).shell.role \in {"ol", "ul"} =>
            /\ At(Caller(d).events, Caller(d).i).tag.kind = "List"
            /\ Callee(d).shell.class \in {TaskListClass, "markdown-list"}
            /\ Callee(d).shell.class = TaskListClass
                   <=> /\ Caller(d).i + 1 < Len(Caller(d).events)
                       /\ At(Caller(d).events, Caller(d).i + 1) = Start(Item)
                       /\ NextIsMarkerText(Caller(d).events, Caller(d).i + 1)

\* An ordered list marked as a task list.
C8_Witness ==
    \E d \in Calls :
        /\ Callee(d).shell.role = "ol"
        /\ Callee(d).shell.class = TaskListClass
        /\ WellFormed(Caller(d).events)
        /\ NextIsMarkerText(Caller(d).events, Caller(d).i + 1)

\* The src of every image of a tree, in document order.
RECURSIVE ImgSrcs(_)
ImgSrcs(nodes) ==
    IF nodes = <<>> THEN <<>>
    ELSE LET h == Head(nodes) IN
         (IF IsElement(h)
          THEN (IF h.role = "img" THEN <<h.src>> ELSE <<>>) \o ImgSrcs(h.children)
          ELSE <<>>)
         \o ImgSrcs(Tail(nodes))

\* The src the resolution rule gives to url u under the configured base path.
ResolvedSrc(base, u) ==
    IF base = None \/ starts_with(u, Http) \/ starts_with(u, Https) THEN u
    ELSE IF u # <<>> /\ u[1] = "/" THEN Unwrap(base) \o u
    ELSE Unwrap(base) \o <<"/">> \o u

RECURSIVE ResolvedSrcs(_, _)
ResolvedSrcs(base, evs) ==
    IF evs = <<>> THEN <<>>
    ELSE (IF Head(evs).k = "Start" /\ Head(evs).tag.kind = "Image"
          THEN <<ResolvedSrc(base, Head(evs).tag.url)>> ELSE <<>>)
         \o ResolvedSrcs(base, Tail(evs))

\* C9: the src of a rendered image with url u is u unchanged when no base path
\* is configured or u starts with "http://" or "https://", base + u when a
\* base path is configured and u starts with "/", and base + "/" + u when a
\* base path is configured and u is any other relative url.
C9_ImageSrcResolution ==
    (done /\ WellFormed(events)) =>
        ImgSrcs(result) = ResolvedSrcs(image_base_path, events)

\* Two images rendered under the base path "/b": "x" joined with a "/",
\* "/x" joined without one.
C9_Witness ==
    /\ done
    /\ image_base_path = Some(<<"/", "b">>)
    /\ ResolvedSrcs(None, events) = <<<<"x">>, <<"/", "x">>>>
    /\ ImgSrcs(result) = <<<<"/", "b", "/", "x">>, <<"/", "b", "/", "x">>>>

\* The scroll class of every code block of a tree, in document order.
RECURSIVE ScrollClasses(_)
ScrollClasses(nodes) ==
    IF nodes = <<>> THEN <<>>
    ELSE LET h == Head(nodes) IN
         (IF IsElement(h)
          THEN (IF "scroll_class" \in DOMAIN h THEN <<h.scroll_class>> ELSE <<>>)
               \o ScrollClasses(h.children)
          ELSE <<>>)
         \o ScrollClasses(Tail(nodes))

\* The text of the Text events among the events, joined.
RECURSIVE JoinedText(_)
JoinedText(evs) ==
    IF evs = <<>> THEN <<>>
    ELSE (IF Head(evs).k = "Text" THEN Head(evs).s ELSE <<>>) \o JoinedText(Tail(evs))

\* The longest line has more than 80 characters, or there are more than 15 lines.
LongOrTall(text) ==
    \/ \E l \in 1..Len(Lines(text)) : Len(Lines(text)[l]) > 80
    \/ Len(Lines(text)) > 15

\* The scroll class each code block among the events should get from its own text.
OwnScrollClasses(evs) ==
    LET blocks == {n \in 1..Len(evs) : evs[n].k = "Start" /\ evs[n].tag.kind = "CodeBlock"}
        RECURSIVE from(_)
        from(n) ==
            IF n > Len(evs) THEN <<>>
            ELSE (IF n \in blocks
                  THEN <<IF LongOrTall(JoinedText(Between(evs, n - 1)))
                         THEN "needs-scroll" ELSE "no-scroll">>
                  ELSE <<>>)
                 \o from(n + 1)
    IN  from(1)

\* C10: every code block is flagged for scrolling if and only if its longest
\* line has more than 80 characters or it has more than 15 lines.
C10_NeedsScrollOfOwnText ==
    (done /\ WellFormed(events)) => ScrollClasses(result) = OwnScrollClasses(events)

\* The Starts matching the probe minus the Ends matching it at positions s..j.
RECURSIVE Balance(_, _, _, _)
Balance(evs, tag, s, j) ==
    IF j < s THEN 0
    ELSE Balance(evs, tag, s, j - 1)
         + (IF At(evs, j).k = "Start" /\ tag_matches(At(evs, j).tag, tag) THEN 1
            ELSE IF At(evs, j).k = "End" /\ tag_matches(At(evs, j).tag, tag) THEN -1
            ELSE 0)

\* No End after position s closes the Start at s.
Unterminated(evs, s, tag) ==
    \A j \in s..(Len(evs) - 1) :
        ~(At(evs, j).k = "End" /\ tag_matches(At(evs, j).tag, tag)
          /\ Balance(evs, tag, s, j) = 0)

\* C13: when the Start at start_index has no matching End, the depth matcher
\* does not return collected events and an index as if an End had been found:
\* every call that returned was called at a Start that has its End.
C13_UnterminatedIsSignalled ==
    \A n \in 1..Len(call) :
        (/\ At(call[n].events, call[n].start_index).k = "Start"
         /\ tag_matches(At(call[n].events, call[n].start_index).tag, call[n].start_tag)) =>
            ~Unterminated(call[n].events, call[n].start_index, call[n].start_tag)

\* The text leaves of a tree, in document order.
RECURSIVE LeafTexts(_)
LeafTexts(nodes) ==
    IF nodes = <<>> THEN <<>>
    ELSE (IF IsElement(Head(nodes)) THEN LeafTexts(Head(nodes).children)
          ELSE <<Head(nodes).text>>)
         \o LeafTexts(Tail(nodes))

CharsOf(str) == {str[n] : n \in 1..Len(str)}

\* The positions strictly inside a footnote definition.
InFootnote(evs) ==
    {j \in 1..Len(evs) :
        \E s \in 1..Len(evs) :
            /\ evs[s].k = "Start" /\ evs[s].tag.kind = "FootnoteDefinition"
            /\ s < j /\ j < MatchingEnd(evs, s - 1) + 1}

\* The characters of the input that occur only inside footnote definitions.
FootnoteOnlyChars(evs) ==
    LET strs(ps) == UNION {CharsOf(evs[j].s) : j \in {q \in ps : "s" \in DOMAIN evs[q]}}
    IN  strs(InFootnote(evs)) \ strs((1..Len(evs)) \ InFootnote(evs))

\* C14: a FootnoteDefinition is not rendered: no event between its Start and
\* its matching End contributes a node or text to the output tree.
C14_FootnoteDefinitionNotRendered ==
    (done /\ WellFormed(events)) =>
        /\ \A n \in 1..Len(LeafTexts(result)) :
               CharsOf(LeafTexts(result)[n]) \cap FootnoteOnlyChars(events) = {}
        /\ (events # <<>> /\ events[1].k = "Start"
               /\ events[1].tag.kind = "FootnoteDefinition"
               /\ MatchingEnd(events, 0) = Len(events) - 1) => result = <<>>

MarkupChar == "<"
HasMarkup(str) == MarkupChar \in CharsOf(str)

\* The attributes of the elements that hold text of the input.
TextAttributes == {"href", "title", "src", "alt", "code", "language", "start"}

\* Raw markup occurs in a tree only as the text of a text node inside a plain span.
RECURSIVE MarkupOnlyInSpans(_)
MarkupOnlyInSpans(nodes) ==
    \A n \in 1..Len(nodes) :
        IsElement(nodes[n]) =>
            /\ \A f \in TextAttributes \cap DOMAIN nodes[n] : ~HasMarkup(nodes[n][f])
            /\ \A c \in 1..Len(nodes[n].children) :
                   (~IsElement(nodes[n].children[c]) /\ HasMarkup(nodes[n].children[c].text))
                       => nodes[n] = Span(nodes[n].children[c].text)
            /\ MarkupOnlyInSpans(nodes[n].children)

\* C16: a RawMarkup (Html) event is only appended to the pending text and
\* leaves render as literal text of a text node; no element or attribute of
\* the tree is made from its content.
C16_RawMarkupStaysText ==
    /\ \A d \in 1..Len(stack) :
           /\ MarkupOnlyInSpans(stack[d].elements)
           /\ MarkupOnlyInSpans(<<stack[d].shell>>)
    /\ done => MarkupOnlyInSpans(result)

\* A finished render whose tree holds the raw markup as the text of a span.
C16_Witness ==
    /\ done
    /\ \E n \in 1..Len(events) : events[n].k = "Html" /\ HasMarkup(events[n].s)
    /\ \E n \in 1..Len(LeafTexts(result)) : HasMarkup(LeafTexts(result)[n])
    /\ MarkupOnlyInSpans(result)

\* The attributes of every link of a tree, in document order.
RECURSIVE LinkAttributes(_)
LinkAttributes(nodes) ==
    IF nodes = <<>> THEN <<>>
    ELSE LET h == Head(nodes) IN
         (IF IsElement(h)
          THEN (IF h.role = "a"
                THEN <<[f \in DOMAIN h \ {"children"} |-> h[f]]>> ELSE <<>>)
               \o LinkAttributes(h.children)
          ELSE <<>>)
         \o LinkAttributes(Tail(nodes))

\* The attributes the styling rule gives to a link.
StyledLink(tag) ==
    IF starts_with(tag.url, Http) \/ starts_with(tag.url, Https)
    THEN [role |-> "a", class |-> "markdown-link markdown-external-link",
          href |-> tag.url, title |-> tag.title,
          target |-> "_blank", rel |-> "noopener noreferrer"]
    ELSE [role |-> "a", class |-> "markdown-link", href |-> tag.url, title |-> tag.title]

RECURSIVE StyledLinks(_)
StyledLinks(evs) ==
    IF evs = <<>> THEN <<>>
    ELSE (IF Head(evs).k = "Start" /\ Head(evs).tag.kind = "Link"
          THEN <<StyledLink(Head(evs).tag)>> ELSE <<>>)
         \o StyledLinks(Tail(evs))

\* C18: a Link gets external styling with target=_blank and rel=noopener
\* noreferrer if and only if its url starts with "http://" or "https://";
\* every other url gets internal styling without them; href is the url
\* unchanged in both cases.
C18_LinkStyling ==
    (done /\ WellFormed(events)) => LinkAttributes(result) = StyledLinks(events)

\* A rendered https link with the external attributes.
C18_Witness ==
    /\ done
    /\ LinkAttributes(result) # <<>>
    /\ starts_with(LinkAttributes(result)[1].href, Https)
    /\ LinkAttributes(result)[1].target = "_blank"

\* The Starts open at the end of the events: an End closes the last open Start
\* when their tags match, and is ignored otherwise.
RECURSIVE OpenTags(_)
OpenTags(evs) ==
    IF evs = <<>> THEN <<>>
    ELSE LET before == OpenTags(SubSeq(evs, 1, Len(evs) - 1))
             e == evs[Len(evs)]
         IN  IF e.k = "Start" THEN Append(before, e.tag)
             ELSE IF e.k = "End" /\ before # <<>> /\ before[Len(before)] = e.tag
             THEN SubSeq(before, 1, Len(before) - 1)
             ELSE before

\* The tag nesting depth of the events.
NestingDepth(evs) ==
    LET depths == {Len(OpenTags(SubSeq(evs, 1, j))) : j \in 0..Len(evs)}
    IN  CHOOSE m \in depths : \A k \in depths : k <= m

\* One step of render: the cursor of the running call moves forward, or a call
\* starts on a shorter sequence, or a call returns and its caller's cursor
\* moves forward, or the outermost call returns.
RenderStep ==
    \/ done'
    \/ /\ Len(stack') = Len(stack)
       /\ stack'[Len(stack)].i > Top.i
       /\ stack'[Len(stack)].events = Top.events
       /\ SubSeq(stack', 1, Len(stack) - 1) = SubSeq(stack, 1, Len(stack) - 1)
    \/ /\ Len(stack') = Len(stack) + 1
       /\ Len(stack'[Len(stack')].events) < Len(Top.events)
       /\ stack'[Len(stack')].i = 0
       /\ stack'[Len(stack)].i = Top.i
       /\ stack'[Len(stack)].events = Top.events
       /\ SubSeq(stack', 1, Len(stack) - 1) = SubSeq(stack, 1, Len(stack) - 1)
    \/ /\ Len(stack') = Len(stack) - 1
       /\ stack'[Len(stack')].i > stack[Len(stack')].i
       /\ stack'[Len(stack')].events = stack[Len(stack')].events
       /\ SubSeq(stack', 1, Len(stack') - 1) = SubSeq(stack, 1, Len(stack') - 1)

\* The running call is at an event one of the arms takes, or is returning.
SomeArmApplies ==
    \/ \E kind \in {"Paragraph", "Heading", "BlockQuote", "CodeBlock", "List", "Item",
                     "FootnoteDefinition", "Table", "TableHead", "TableRow", "TableCell",
                     "Emphasis", "Strong", "Strikethrough", "Link", "Image"} : AtStart(kind)
    \/ \E k \in {"End", "Text", "Code", "Html", "FootnoteReference", "SoftBreak",
                  "HardBreak", "Rule", "TaskListMarker"} : AtEvent(k)
    \/ stack # <<>> /\ Top.i >= Len(Top.events)

\* Every cursor is within its sequence, the calls are no deeper than the tags
\* nest, and a render that has not returned can take a step.
RenderBounded ==
    /\ \A d \in 1..Len(stack) : stack[d].i \in 0..Len(stack[d].events)
    /\ Len(stack) - 1 <= NestingDepth(events)
    /\ ~done => SomeArmApplies

\* C19: render terminates on every finite event sequence, well-formed or not:
\* every iteration of the loop strictly increases the cursor, every recursive
\* call gets a sequence strictly shorter than its caller's, and the recursion
\* depth is bounded by the tag nesting depth of the input.
C19_RenderTerminates == []RenderBounded /\ [][RenderStep]_vars

\* A call two levels deep on a sequence that is not well-formed.
C19_Witness ==
    /\ ~WellFormed(events)
    /\ Len(stack) = 3
    /\ Top.i = Len(Top.events)

\* C20: during every scan of the depth matcher that render starts on a
\* well-formed sequence, the depth counter is never negative.
C20_DepthNeverNegative ==
    \A n \in 1..Len(call) : WellFormed(call[n].events) => call[n].low >= 0

\* A scan on a well-formed sequence that went two levels deep and stopped at
\* the matching End.
C20_Witness ==
    /\ call # <<>>
    /\ GoodCall(call[1])
    /\ call[1].low = 0
    /\ call[1].new_index < Len(call[1].events)
    /\ \E j \in 1..Len(call[1].content) :
           /\ call[1].content[j].k = "Start"
           /\ tag_matches(call[1].content[j].tag, call[1].start_tag)

-----------------------------------------------------------------------------
(* Claims about the classifier, the catalog and the component *)

BothClassified == Len(class_names) = 2
SameStyleAndText ==
    /\ spans[1].style = spans[2].style
    /\ spans[1].text = spans[2].text
\* The language tags of the two spans are one word up to the case of its letters.
SameLanguageTag == to_lowercase(spans[1].language) = to_lowercase(spans[2].language)

\* C11 (as stated): two spans with the same foreground colour, font style and
\* text always get the same semantic class.
C11_SameSpanSameClass ==
    (BothClassified /\ SameStyleAndText) => class_names[1] = class_names[2]

\* C11 (amended): two spans with the same foreground colour, font style and
\* text, in code blocks whose language tags are equal up to letter case, get
\* the same semantic class.
C11_SameSpanSameLanguageSameClass ==
    (BothClassified /\ SameStyleAndText /\ SameLanguageTag)
        => class_names[1] = class_names[2]

\* Two spans off the palette, one tagged "js" and one "JS", classified by the
\* heuristic of the language.
C11_Witness ==
    /\ BothClassified /\ SameStyleAndText /\ SameLanguageTag
    /\ spans[1].language # spans[2].language
    /\ ~spans[1].style.italic /\ ~InPalette(spans[1].style.foreground)
    /\ class_names[1] = "string"

\* out is line with every tab replaced by four spaces
TabExpanded(line, out) ==
    LET tabs(n) == Cardinality({m \in 1..n : line[m] = "\t"})
        at(n) == n + 3 * tabs(n - 1)
    IN  /\ Len(out) = Len(line) + 3 * tabs(Len(line))
        /\ \A n \in 1..Len(line) :
              IF line[n] = "\t"
              THEN \A d \in 0..3 : out[at(n) + d] = " "
              ELSE out[at(n)] = line[n]

RECURSIVE SegmentsText(_)
SegmentsText(segs) ==
    IF segs = <<>> THEN <<>> ELSE Head(segs).text \o SegmentsText(Tail(segs))

SemanticClasses ==
    {"keyword", "function", "comment", "string", "number", "type", "text", "bool", "attribute"}

\* The line the oracle failed on is one span of class "text" with the line, tabs expanded.
FailedLineIsOneTextSpan(k) ==
    /\ Len(highlighted_lines[k]) = 1
    /\ highlighted_lines[k][1].class = "text"
    /\ TabExpanded(Lines(code)[k], highlighted_lines[k][1].text)

\* The line the oracle answered for has one classified span for each range.
OkLineIsClassified(k) ==
    /\ Len(highlighted_lines[k]) = Len(outcomes[k].ranges)
    /\ \A n \in 1..Len(highlighted_lines[k]) :
          /\ highlighted_lines[k][n].text = outcomes[k].ranges[n].text
          /\ highlighted_lines[k][n].class \in SemanticClasses
    /\ TabExpanded(Lines(code)[k], SegmentsText(highlighted_lines[k]))

\* C15: a line the highlighting oracle fails on is emitted as exactly one span
\* of class "text" holding the tab-expanded line, the other lines are still
\* classified, and the block has one output line for each source line, in
\* source order.
C15_FailedLineDegradesAlone ==
    /\ Len(highlighted_lines) = Len(outcomes)
    /\ Len(highlighted_lines) <= Len(Lines(code))
    /\ \A k \in 1..Len(outcomes) :
          IF outcomes[k].ok THEN OkLineIsClassified(k) ELSE FailedLineIsOneTextSpan(k)
    /\ highlighted => Len(highlighted_lines) = Len(Lines(code))

\* A block is returned in which the oracle failed on a line with a tab and
\* answered for the line after it.
C15_Witness ==
    /\ highlighted
    /\ \E k \in 1..(Len(outcomes) - 1) :
          /\ ~outcomes[k].ok
          /\ outcomes[k + 1].ok
          /\ \E n \in 1..Len(Lines(code)[k]) : Lines(code)[k][n] = "\t"
          /\ Len(highlighted_lines[k][1].text) > Len(Lines(code)[k])

\* C12: under any interleaving of the renders' accesses, the grammar set and
\* the theme set are each constructed at most once, and every accessor call
\* returns that one instance to whichever thread makes it.
C12_SetsConstructedOnce ==
    \A s \in Statics :
        /\ constructions[s] <= 1
        /\ \A t \in Threads : returned[t][s] # 0 =>
              /\ returned[t][s] = 1
              /\ once[s].state = "complete"
              /\ returned[t][s] = once[s].value

\* Two threads in their first render hold the one grammar set while one of
\* them constructs the theme set and the other waits for it.
C12_Witness ==
    \E t1 \in Threads, t2 \in Threads :
        /\ t1 # t2
        /\ renders[t1] = 1 /\ renders[t2] = 1
        /\ returned[t1]["SYNTAX_SET"] = 1 /\ returned[t2]["SYNTAX_SET"] = 1
        /\ pc[t1] = "load_theme_set" /\ pc[t2] = "get_theme_set"
        /\ constructions["SYNTAX_SET"] = 1

ReadFailed == IsSome(file_path) /\ ~files[Unwrap(file_path)].ok
ReadSucceeded == IsSome(file_path) /\ files[Unwrap(file_path)].ok
ProvidedContent == IF content_prop = <<>> THEN <<>> ELSE content_prop[1]

\* C17: when a file path is given and the read fails, the provided content
\* (the empty string when there is none) is rendered and the error goes no
\* further than stderr; when the read succeeds, the file's content is
\* rendered.
C17_FileReadFallback ==
    /\ stage \in {"props", "content_str", "final_content", "rendered"}
    /\ stage \in {"final_content", "rendered"} =>
          /\ ReadFailed => final_content = ProvidedContent /\ Len(stderr) = 1
          /\ ReadSucceeded => final_content = files[Unwrap(file_path)].text /\ stderr = <<>>
    /\ stage = "rendered" =>
          /\ ReadFailed => parsed = <<ProvidedContent>>
          /\ ReadSucceeded => parsed = <<files[Unwrap(file_path)].text>>
    /\ (stage = "final_content" /\ ReadFailed) => parsed = <<>>

\* The read of the given path failed and the provided content was rendered.
C17_Witness ==
    /\ stage = "rendered"
    /\ ReadFailed
    /\ content_prop = <<<<"a">>>>
    /\ parsed = <<<<"a">>>>
    /\ Len(stderr) = 1

\* The read succeeded and the file's content was rendered instead of the provided one.
C17_WitnessFileRendered ==
    /\ stage = "rendered"
    /\ ReadSucceeded
    /\ content_prop = <<<<"a">>>>
    /\ parsed = <<<<"c">>>>

-----------------------------------------------------------------------------
(* Claims about the End arm, the pending text and the texts of images and code blocks *)

\* C21: for a well-formed event sequence the cursor of a render call, at any
\* nesting level, is never on an End event: the End arm of the loop is reached
\* only on malformed input.
C21_EndArmOnlyOnMalformed ==
    (WellFormed(events) /\ InLoop) => Cur.k # "End"

\* The element a leaf event emits for itself has this role.
OwnRole(k) ==
    CASE k = "Code" -> "code"
      [] k = "HardBreak" -> "br"
      [] k = "Rule" -> "hr"
      [] k = "FootnoteReference" -> "sup"
      [] k = "TaskListMarker" -> "div"
      [] OTHER -> "none"

\* A step on an event of one of the kinds with text pending: in the same call
\* the buffer is empty afterwards, a span with the text follows the elements
\* there were, and what the event pushes for itself comes right after it.
PendingTextFlushed(kinds) ==
    LET d == Len(stack)
        f == Top
        g == stack'[d]
        n == Len(f.elements)
    IN  (InLoop /\ Cur.k \in kinds /\ f.current_text # <<>>) =>
            /\ Len(stack') >= d
            /\ g.current_text = <<>>
            /\ Len(g.elements) \in {n + 1, n + 2}
            /\ SubSeq(g.elements, 1, n + 1) = Append(f.elements, Span(f.current_text))
            /\ Cur.k # "Start" =>
                  /\ Len(g.elements) = n + 2
                  /\ g.elements[n + 2].role = OwnRole(Cur.k)
            /\ (Cur.k = "Start" /\ Len(stack') > d) => Len(g.elements) = n + 1

\* The element of a recursive call is pushed right after what the caller had,
\* and text still pending when a call returns is its last element.
RemainingTextLast ==
    /\ (~done /\ Len(stack) > 1 /\ Top.i >= Len(Top.events)) =>
          LET caller == stack[Len(stack) - 1]
              after == stack'[Len(stack) - 1]
              n == Len(caller.elements)
          IN  /\ Len(after.elements) = n + 1
              /\ SubSeq(after.elements, 1, n) = caller.elements
              /\ after.elements[n + 1].role = Top.shell.role
              /\ (Top.current_text # <<>> /\ ~IsTaskItemShell(Top.shell)) =>
                    LET children == after.elements[n + 1].children
                    IN  /\ children # <<>>
                        /\ children[Len(children)] = Span(Top.current_text)
    /\ (~done /\ Len(stack) = 1 /\ Top.i >= Len(Top.events) /\ Top.current_text # <<>>) =>
          result' = Append(Top.elements, Span(Top.current_text))

\* C22 (as stated): a Start, Code, SoftBreak, HardBreak, Rule, FootnoteReference
\* or TaskListMarker event processed with text pending has a text node with
\* that text emitted right before its own node and leaves the buffer empty;
\* text remaining at the end is emitted as the last node.
C22_AllBreaksFlushPendingText ==
    [][/\ PendingTextFlushed({"Start", "Code", "SoftBreak", "HardBreak", "Rule",
                              "FootnoteReference", "TaskListMarker"})
       /\ RemainingTextLast]_vars

\* C22 (amended): the same for Start, Code, HardBreak, Rule, FootnoteReference
\* and TaskListMarker; a SoftBreak adds one space to the pending text, emits no
\* node and flushes nothing.
C22_PendingTextFlushedInOrder ==
    [][/\ PendingTextFlushed({"Start", "Code", "HardBreak", "Rule",
                              "FootnoteReference", "TaskListMarker"})
       /\ (InLoop /\ Cur.k = "SoftBreak") =>
              /\ stack'[Len(stack)].current_text = Append(Top.current_text, " ")
              /\ stack'[Len(stack)].elements = Top.elements
       /\ RemainingTextLast]_vars

\* A hard break came after text: the span with the text, then the br.
C22_Witness ==
    /\ done
    /\ \E n \in 1..(Len(result) - 1) :
          /\ result[n] = Span(<<"a">>)
          /\ result[n + 1].role = "br"

\* The string has a character that is not white space.
HasInk(s) == \E n \in 1..Len(s) : s[n] \notin {" ", "\t", "\n", "\r"}

\* The texts of the spans among the elements, in order.
RECURSIVE EmittedText(_)
EmittedText(elements) ==
    IF elements = <<>> THEN <<>>
    ELSE (IF Head(elements).role = "span" THEN Head(elements).children[1].text ELSE <<>>)
         \o EmittedText(Tail(elements))

\* What the first n events of a level without nested tags put into its text.
RECURSIVE LevelText(_, _)
LevelText(evs, n) ==
    IF n = 0 THEN <<>>
    ELSE LevelText(evs, n - 1)
         \o (CASE evs[n].k = "Text" /\ HasInk(evs[n].s) -> evs[n].s
               [] evs[n].k = "Html" -> evs[n].s
               [] evs[n].k = "SoftBreak" -> <<" ">>
               [] OTHER -> <<>>)

\* In a call that has met no tag so far, the spans emitted and the pending
\* text hold the texts of the level in order.
LevelTextsInOrder ==
    (~done /\ stack # <<>>) =>
        LET n == IF Top.i <= Len(Top.events) THEN Top.i ELSE Len(Top.events) IN
        (\A m \in 1..n : Top.events[m].k \notin {"Start", "End"}) =>
            EmittedText(Top.elements) \o Top.current_text = LevelText(Top.events, n)

\* C23 (as stated): every Text event the render pass processes, whatever its
\* string, has that string appended unchanged to the pending text.
C23_EveryTextAppended ==
    [][(InLoop /\ Cur.k = "Text") =>
           stack'[Len(stack)].current_text = Top.current_text \o Cur.s]_vars

\* C23 (amended): a Text event whose string has a character that is not white
\* space has the string appended unchanged to the pending text, a Text event
\* whose string is empty or white space only leaves the pending text as it is;
\* the text nodes of a level, in order, hold the strings of its Text events
\* that are not white space only.
C23_InkedTextAppended ==
    /\ [][(InLoop /\ Cur.k = "Text") =>
              /\ stack'[Len(stack)].current_text =
                     IF HasInk(Cur.s) THEN Top.current_text \o Cur.s ELSE Top.current_text
              /\ stack'[Len(stack)].elements = Top.elements]_vars
    /\ []LevelTextsInOrder

\* A blank Text and then a Text "a" were rendered: one span, "a".
C23_Witness ==
    /\ done
    /\ events = <<Text(<<" ">>), Text(<<"a">>)>>
    /\ result = <<Span(<<"a">>)>>

-----------------------------------------------------------------------------
(* Claims about the tiers and the rule-sets of the classifier *)

\* The class the palette gives to a colour by its red, green and blue, "none"
\* when the colour is not in it.
TableClass(c) ==
    CASE c.r = 255 /\ c.g = 121 /\ c.b = 198 -> "keyword"
      [] c.r = 80 /\ c.g = 250 /\ c.b = 123 -> "function"
      [] c.r = 98 /\ c.g = 114 /\ c.b = 164 -> "comment"
      [] c.r = 241 /\ c.g = 250 /\ c.b = 140 -> "string"
      [] c.r = 189 /\ c.g = 147 /\ c.b = 249 -> "number"
      [] c.r = 139 /\ c.g = 233 /\ c.b = 253 -> "type"
      [] c.r = 248 /\ c.g = 248 /\ c.b = 242 -> "text"
      [] OTHER -> "none"

Classified(k) == k <= Len(class_names)
Italic(k) == spans[k].style.italic
OffPalette(k) == TableClass(spans[k].style.foreground) = "none"
\* The span is left to the heuristic of its language.
Heuristic(k) == Classified(k) /\ ~Italic(k) /\ OffPalette(k)
LanguageIs(k, names) == to_lowercase(spans[k].language) \in names

\* C24: the three tiers apply in a fixed order: an italic span is 'type'
\* whatever its colour and text; a span that is not italic and whose colour is
\* in the palette has the palette's class whatever its text and language; the
\* heuristic of the language decides only spans that are not italic and have
\* no palette match.
C24_TiersInOrder ==
    /\ \A k \in 1..Len(class_names) :
          /\ Italic(k) => class_names[k] = "type"
          /\ (~Italic(k) /\ ~OffPalette(k)) =>
                class_names[k] = TableClass(spans[k].style.foreground)
          /\ class_names[k] \in {"bool", "attribute"} => Heuristic(k)
    /\ (Len(class_names) = 2 /\ spans[1].style = spans[2].style
        /\ class_names[1] # class_names[2]) => Heuristic(1)

\* An italic span in the palette's keyword colour whose text is a string
\* literal in js is 'type', and so is its companion with another text.
C24_Witness ==
    /\ Len(class_names) = 2
    /\ Italic(1) /\ TableClass(spans[1].style.foreground) = "keyword"
    /\ spans[1].text = <<"'", "s", "'">> /\ spans[1].language = <<"j", "s">>
    /\ spans[2].text # spans[1].text
    /\ class_names = <<"type", "type">>

-----------------------------------------------------------------------------
(* Claims about the text of an image and of a code block *)

\* The Text and Code strings and the breaks among the events, as one string.
RECURSIVE Flattening(_)
Flattening(evs) ==
    IF evs = <<>> THEN <<>>
    ELSE (CASE Head(evs).k \in {"Text", "Code"} -> Head(evs).s
            [] Head(evs).k = "SoftBreak" -> <<"\n">>
            [] Head(evs).k = "HardBreak" -> <<"\n", "\n">>
            [] OTHER -> <<>>)
         \o Flattening(Tail(evs))

\* The flattening of what lies between each Start of the kind and its End.
OwnTexts(evs, kind) ==
    LET RECURSIVE from(_)
        from(n) ==
            IF n > Len(evs) THEN <<>>
            ELSE (IF evs[n].k = "Start" /\ evs[n].tag.kind = kind
                  THEN <<Flattening(Between(evs, n - 1))>>
                  ELSE <<>>)
                 \o from(n + 1)
    IN  from(1)

\* The alt attributes of the rendered images and the texts of their captions.
RECURSIVE ImgAlts(_)
ImgAlts(nodes) ==
    IF nodes = <<>> THEN <<>>
    ELSE LET h == Head(nodes) IN
         (IF IsElement(h)
          THEN (IF h.role = "img" THEN <<h.alt>> ELSE <<>>) \o ImgAlts(h.children)
          ELSE <<>>)
         \o ImgAlts(Tail(nodes))

RECURSIVE Captions(_)
Captions(nodes) ==
    IF nodes = <<>> THEN <<>>
    ELSE LET h == Head(nodes) IN
         (IF IsElement(h)
          THEN (IF h.role = "figcaption" THEN <<h.children[1].text>> ELSE Captions(h.children))
          ELSE <<>>)
         \o Captions(Tail(nodes))

\* The code texts of the rendered code blocks.
RECURSIVE RenderedCode(_)
RenderedCode(nodes) ==
    IF nodes = <<>> THEN <<>>
    ELSE LET h == Head(nodes) IN
         (IF IsElement(h)
          THEN (IF "code" \in DOMAIN h THEN <<h.code>> ELSE <<>>) \o RenderedCode(h.children)
          ELSE <<>>)
         \o RenderedCode(Tail(nodes))

\* C25: for every image of the sequence, the alt attribute and the caption
\* both are the flattening of the events between the image's own Start and its
\* matching End, also when an image with the same link kind, url and title
\* comes earlier in the sequence.
C25_AltOfOwnEvents ==
    (done /\ WellFormed(events)) =>
        /\ ImgAlts(result) = OwnTexts(events, "Image")
        /\ Captions(result) = OwnTexts(events, "Image")

\* C26: for every code block of the sequence, the code text that is rendered
\* and measured is the text between the block's own Start and its matching
\* End, also when a code block of the same kind and language comes earlier in
\* the sequence.
C26_CodeOfOwnEvents ==
    (done /\ WellFormed(events)) => RenderedCode(result) = OwnTexts(events, "CodeBlock")

\* The rule-set the normalized language token of the span selects.
RuleSet(k) ==
    IF LanguageIs(k, {<<"j", "s">>, <<"j", "a", "v", "a", "s", "c", "r", "i", "p", "t">>})
    THEN "js"
    ELSE IF LanguageIs(k, {<<"h", "t", "m", "l">>}) THEN "html"
    ELSE IF LanguageIs(k, {<<"c", "s", "s">>}) THEN "css"
    ELSE "generic"

\* Texts that tell the rule-sets apart, and the class each set gives them.
ProbeAngle == <<"<", "T", ">">>
ProbeColon == <<"x", ":">>
ProbeAt == <<"@", "a">>
ProbeApostrophes == <<"'", "s", "'">>
Probes == {ProbeAngle, ProbeColon, ProbeAt, ProbeApostrophes}
ProbeClass(set, text) ==
    CASE text = ProbeAngle -> (IF set = "js" THEN "type"
                               ELSE IF set = "html" THEN "keyword" ELSE "text")
      [] text = ProbeColon -> (IF set = "css" THEN "keyword" ELSE "text")
      [] text = ProbeAt -> (IF set = "generic" THEN "attribute" ELSE "text")
      [] text = ProbeApostrophes -> (IF set = "js" THEN "string" ELSE "text")

\* The language of the span is no alias of the match and no token of the catalog.
UnknownLanguage(k) ==
    /\ ~\E p \in LanguageNames : p[1] = to_lowercase(spans[k].language)
    /\ spans[k].language \notin CatalogTokens

\* C27: the rule-set is chosen by the normalized language token: js and
\* javascript, in any case of their letters, give the JS-like set, html the
\* HTML-like set, css the CSS-like set, and every other token, typescript and
\* unknown ones among them, the generic set; an unknown token is classified
\* all the same, with the plain-text grammar.
C27_RuleSetByToken ==
    /\ Len(syntaxes) = Len(class_names)
    /\ \A k \in 1..Len(class_names) :
          /\ (Heuristic(k) /\ spans[k].text \in Probes) =>
                class_names[k] = ProbeClass(RuleSet(k), spans[k].text)
          /\ UnknownLanguage(k) =>
                /\ syntaxes[k] = PlainText
                /\ class_names[k] \in SemanticClasses
                /\ (Heuristic(k) /\ spans[k].text \in Probes) =>
                      class_names[k] = ProbeClass("generic", spans[k].text)

\* "<T>" off the palette is 'type' under "JS" and 'text' under "ts", and a
\* span of the unknown language "ZZ" is classified with the plain-text grammar.
C27_Witness ==
    /\ Len(class_names) = 2
    /\ Heuristic(1) /\ spans[1].text = ProbeAngle
    /\ spans[1].language = <<"t", "s">> /\ class_names[1] = "text"
    /\ spans[2].language = <<"Z", "Z">> /\ syntaxes[2] = PlainText
    /\ spans[2].text = ProbeAngle /\ class_names[2] = "text"

-----------------------------------------------------------------------------
(* Claims about the catalog after its construction *)

\* C28: once constructed, the grammar set and the theme set are never
\* replaced or torn down, and a render that holds one of them holds the value
\* of the one construction, whatever renders ran in between.
C28_CatalogNeverMutated ==
    /\ [][\A s \in Statics : once[s].state = "complete" => once'[s] = once[s]]_vars
    /\ [](\A s \in Statics : \A t \in Threads :
             returned[t][s] # 0 => once[s] = [state |-> "complete", value |-> returned[t][s]])

\* A thread is in its second render, after a render of another thread, and
\* holds the sets the one construction made.
C28_Witness ==
    \E t1 \in Threads, t2 \in Threads :
        /\ t1 # t2
        /\ renders[t1] = 2 /\ renders[t2] >= 1
        /\ pc[t1] = "highlighting"
        /\ \A s \in Statics :
              /\ constructions[s] = 1
              /\ returned[t1][s] = 1
              /\ once[s] = [state |-> "complete", value |-> 1]

-----------------------------------------------------------------------------
(* Claims about the CSS-like and the HTML-like rule-sets *)

FirstChar(text) == IF text = <<>> THEN "" ELSE text[1]
LastChar(text) == IF text = <<>> THEN "" ELSE text[Len(text)]

\* The characters of s from position n on are those of p.
HasAt(s, n, p) == n >= 1 /\ n + Len(p) - 1 <= Len(s) /\ \A j \in 1..Len(p) : s[n + j - 1] = p[j]
Begins(s, p) == HasAt(s, 1, p)
Finishes(s, p) == HasAt(s, Len(s) - Len(p) + 1, p)
Has(s, c) == \E n \in 1..Len(s) : s[n] = c

\* C29: in the CSS-like rule-set, a span with no palette match whose text
\* starts with "#" and does not end with ":" is 'type'; the rule for "#" texts
\* of length 4 or 7 is never reached, so the rule-set never gives 'string'.
C29_CssHashIsType ==
    \A k \in 1..Len(class_names) :
        (Heuristic(k) /\ RuleSet(k) = "css") =>
            /\ (FirstChar(spans[k].text) = "#" /\ LastChar(spans[k].text) # ":") =>
                  class_names[k] = "type"
            /\ class_names[k] # "string"

\* The colour "#fff" in a css block, off the palette, is 'type'.
C29_Witness ==
    /\ Len(class_names) >= 1
    /\ Heuristic(1) /\ RuleSet(1) = "css"
    /\ spans[1].text = <<"#", "f", "f", "f">>
    /\ class_names[1] = "type"

\* C30: in the HTML-like rule-set, a span with no palette match whose text
\* starts with "<" and contains ">" is 'keyword' before the comment rule is
\* tried, so a complete comment "<!-- ... -->" is 'keyword'; 'comment' goes
\* only to text that starts with "<!--" and contains no ">" or that ends with
\* "-->" and does not start with "<".
C30_HtmlTagBeforeComment ==
    \A k \in 1..Len(class_names) :
        (Heuristic(k) /\ RuleSet(k) = "html") =>
            LET text == spans[k].text
                dashes == <<"-", "-", ">">>
                opening == <<"<", "!", "-", "-">>
            IN  /\ (FirstChar(text) = "<" /\ Has(text, ">")) => class_names[k] = "keyword"
                /\ class_names[k] = "comment" <=>
                      /\ ~(FirstChar(text) = "\"" /\ LastChar(text) = "\"")
                      /\ \/ Begins(text, opening) /\ ~Has(text, ">")
                         \/ Finishes(text, dashes) /\ FirstChar(text) # "<"

\* The complete comment "<!--c-->" in an html block, off the palette, is 'keyword'.
C30_Witness ==
    /\ Len(class_names) >= 1
    /\ Heuristic(1) /\ RuleSet(1) = "html"
    /\ spans[1].text = <<"<", "!", "-", "-", "c", "-", "-", ">">>
    /\ class_names[1] = "keyword"

====
